---------------------------- MODULE Spec2Model ----------------------------
(***************************************************************************)
(* State-machine model of localgpt's core: the cron job scheduler          *)
(* (crates/core/src/cron), the session actor runtime                       *)
(* (crates/core/src/concurrency/actor.rs) and the IPC bridge manager       *)
(* (crates/server/src/security/bridge.rs).                                 *)
(*                                                                         *)
(* Each subsystem has its own specification: SpecCron (the scheduler),     *)
(* SpecBridgeHealth (the connection registry and its health),              *)
(* SpecBridgeChat (the session requests of the bridge) and SpecActor (the  *)
(* session actor).                                                         *)
(* The variables of the other subsystems stay at their initial value.      *)
(* Time is a wall clock counted in seconds; every specification says at    *)
(* which instants it is read.                                              *)
(***************************************************************************)
EXTENDS Integers, Sequences, FiniteSets, TLC

VARIABLES
    clock,       \* the wall clock (Local::now() / Utc::now()), in seconds
    \* ---- cron scheduler ------------------------------------------------
    jobs,        \* CronScheduler.jobs: Vec<JobState>
    tasks,       \* the tokio tasks tick() has spawned and that still run
    ticked,      \* a tick() has already read the current clock value
    spawnTimes,  \* history: per job index, the clock values it was spawned at
    tickTimes,   \* history: the clock values at which tick() ran
    dueSlots,    \* history: per job index, the values next_run has held
    \* ---- bridge manager ------------------------------------------------
    health_config,   \* BridgeManager.health_config (the two thresholds)
    agent_support,   \* BridgeManager.agent_support is Some(..)
    conn,            \* per connection id: where its transport stands
    peer,            \* per connection id: what get_peer_identity finds
    active_bridges,  \* BridgeManager.active_bridges: id -> BridgeStatus
    scanned,         \* the health checker has run at the current clock value
    credentials,     \* BridgeManager.credentials: the decrypted cache
    disk,            \* the credential files <data_dir>/bridges/<id>.enc
    rpc,             \* per connection: the session request it is serving
    sessionsLock,    \* AgentSupport.sessions mutex: holder first, then waiters
    sessions,        \* AgentSupport.sessions: session-id -> AgentSession
    chatCount,       \* history: the chat requests dispatched so far
    contended,       \* history: chats dispatched while another chat of the
                     \*          same session was in flight
    failed,          \* history: chats that returned an error
    \* ---- session actor -------------------------------------------------
    actorPhase,      \* where the actor task stands: init, idle, busy, stopped
    mailbox,         \* the mpsc channel of the actor: messages in flight
    current,         \* the message the loop is handling (an Option)
    actorAgent,      \* the Agent the task owns: its session
    replies,         \* history: the ids of the messages replied to, in order
    streams,         \* the chunks sent on the channel of each ChatStream
    dropped,         \* history: the messages dropped unanswered, with
                     \*          the place they were dropped at
    sentCount,       \* history: the messages enqueued so far
    \* ---- credential vault ----------------------------------------------
    device_key,      \* the device master key file: a key, or "unreadable"
    vaultLast,       \* the last call on the vault and what it returned
    written,         \* history: per bridge id, the files register_bridge wrote
    vaultOps,        \* history: the vault calls and file changes so far
    \* ---- bridge clients -----------------------------------------------
    clientKind,      \* the program at the other end of the connection
    serverVersion,   \* the string the server answers get_version with
    clientPhase,     \* where the client's main() stands
    exitCode,        \* the exit code of the client process (an Option)
    calls,           \* history: the RPCs requested on the connection
    \* ---- tool input filter --------------------------------------------
    toolFilter,      \* a CompiledToolFilter
    toolValue,       \* the value of the tool's filtered field
    toolVerdict,     \* what check returned for toolValue (an Option)
    toolMerges,      \* history: the merge_hardcoded calls so far
    \* ---- tool calls of a turn ----------------------------------------
    allowed_dirs,    \* the configured allowed_dirs list, as a set
    sandbox_policy,  \* the tools' sandbox_policy (an Option): denied dirs
    fsys,            \* the file system: real path -> content
    audit,           \* the security audit log: the entries appended
    spawned,         \* history: the commands a process was spawned for
    transcript,      \* the messages of the session
    pending,         \* the tool calls of the last Assistant message that
                     \* have not been executed yet
    toolLast,        \* the last tool call executed and what it returned
    \* ---- web search --------------------------------------------------
    ttl,             \* SearchCache.ttl, in seconds
    searchCache,     \* SearchCache.entries: key -> CacheEntry
    inflight,        \* the searches that wait for the provider's answer
    searchLog,       \* history: the searches that returned, in order
    \* ---- supervised actor --------------------------------------------
    supervisor,      \* where the supervisor task stands: none, init,
                     \* started, failed
    \* ---- skill commands ----------------------------------------------
    skillName,       \* the name of a skill, as its SKILL.md gives it
    commandName,     \* the command name derived from it (an Option)
    commandAgain,    \* the command name derived from commandName (an Option)
    \* ---- telegram bridge ---------------------------------------------
    paired_user,           \* BotState.paired_user (an Option)
    pending_pairing_code,  \* BotState.pending_pairing_code (an Option)
    pairing_file,          \* the pairing file on disk (an Option)
    botSessions,           \* BotState.sessions: the chat ids that have one
    updates,               \* per user: the message being handled
    pairedLock,            \* the holder of the paired_user mutex
    pendingLock,           \* the holder of the pending_pairing_code mutex
    botLast,               \* history: the last step that looked at the
                           \*          pairing, and what it found
    updateCount,           \* history: the messages received so far
    \* ---- skills of the system prompt ---------------------------------
    skillList,       \* the skills loaded (a sequence of Skill)
    routing_ctx,     \* the routing context of the call (an Option)
    skillsPrompt,    \* the skills the prompt lists (an Option)
    \* ---- MCP servers -------------------------------------------------
    mcpConfigs,      \* the servers configured, in order
    mcpCursor,       \* the server connect_all comes to next
    mcpClients,      \* McpManager.clients: the servers connected
    mcpToolList,     \* the tools connect_all has wrapped so far
    mcpReturned,     \* what connect_all returned (an Option)
    \* ---- pruning of sessions -----------------------------------------
    sessionsDir,     \* the files of the sessions directory, as read_dir
                     \* lists them
    pruneArgs,       \* max_age and max_count of the call (Options)
    previewed,       \* what preview_prune returned (an Option)
    pruned,          \* what prune_sessions did (an Option)
    \* ---- rate limiter ------------------------------------------------
    limiter,         \* RateLimiter: rate, max_tokens and enabled
    buckets,         \* RateLimiter.buckets: ip -> Option of TokenBucket
    limiterLast      \* history: the last check, its answer and the
                     \*          buckets it found

cronVars == <<jobs, tasks, ticked, spawnTimes, tickTimes, dueSlots>>
bridgeVars == <<health_config, agent_support, conn, peer, active_bridges,
                scanned, credentials, disk, rpc, sessionsLock, sessions, chatCount,
                contended, failed>>
actorVars == <<actorPhase, mailbox, current, actorAgent, replies, streams,
               dropped, sentCount>>
vaultVars == <<device_key, vaultLast, written, vaultOps>>
clientVars == <<clientKind, serverVersion, clientPhase, exitCode, calls>>
filterVars == <<toolFilter, toolValue, toolVerdict, toolMerges>>
toolVars == <<allowed_dirs, sandbox_policy, fsys, audit, spawned, transcript,
              pending, toolLast>>
searchVars == <<ttl, searchCache, inflight, searchLog>>
superVars == <<supervisor>>
skillVars == <<skillName, commandName, commandAgain>>
botVars == <<paired_user, pending_pairing_code, pairing_file, botSessions,
             updates, pairedLock, pendingLock, botLast, updateCount>>
promptVars == <<skillList, routing_ctx, skillsPrompt>>
mcpVars == <<mcpConfigs, mcpCursor, mcpClients, mcpToolList, mcpReturned>>
pruneVars == <<sessionsDir, pruneArgs, previewed, pruned>>
limiterVars == <<limiter, buckets, limiterLast>>
lastVars == <<promptVars, mcpVars, pruneVars, limiterVars>>
lateVars == <<skillVars, botVars, lastVars>>
restVars == <<toolVars, searchVars, superVars, lateVars>>
nonCronVars == <<bridgeVars, actorVars, vaultVars, clientVars, filterVars,
                 restVars>>
nonBridgeVars == <<cronVars, actorVars, vaultVars, clientVars, filterVars,
                   restVars>>
vars == <<clock, cronVars, bridgeVars, actorVars, vaultVars, clientVars,
          filterVars, restVars>>

(***************************************************************************)
(* Bounds of the model.                                                    *)
(***************************************************************************)
MaxSteps == 3     \* the clock instants modelled: 0 .. MaxSteps * ClockStep
NJobs == 2        \* the configured cron jobs
MaxSeconds == 2   \* the bridge manager is followed for this many seconds
MaxChats == 2     \* the chat requests clients send to the bridge
MaxMsgs == 3      \* the messages callers send to the session actor
MaxVaultOps == 3  \* the calls on the credential vault and changes of its files
MaxCalls == 4     \* the RPCs a bridge client requests on its connection
MaxMerges == 2    \* the merge_hardcoded calls on one filter
MailboxSize == 2  \* ActorConfig.mailbox_size of the modelled actor
MaxTurns == 2      \* User messages of the modelled session
MaxToolCalls == 2  \* tool calls the provider asks for in the session
MaxSearches == 2   \* the searches asked of the router

\* The value that stands for an absent result (Option::None, a parse error).
None == -1

\* A map without entries (an empty HashMap, an empty Vec).
EmptyMap == <<>>

\* The map m without the key k.
RemoveKey(m, k) == [x \in DOMAIN m \ {k} |-> m[x]]

\* The connection ids serve() hands out (fresh UUIDs), the session ids and
\* the bridge ids clients name.
ConnectionIds == {"c1", "c2"}
SessionIds == {"s1", "s2"}
TelegramId == <<"t", "e", "l", "e", "g", "r", "a", "m">>
BridgeIds == {TelegramId}

\* HealthCheckConfig::default(): degraded after 60 s, unhealthy after 120 s.
DefaultHealthCheckConfig ==
    [degraded_threshold |-> 60, unhealthy_threshold |-> 120]

\* The scheduler of a process that has no cron jobs.
CronIdle ==
    /\ jobs = EmptyMap
    /\ tasks = {}
    /\ ticked = TRUE
    /\ spawnTimes = EmptyMap
    /\ tickTimes = {}
    /\ dueSlots = EmptyMap

\* BridgeManager::new() before serve() has accepted anything.
BridgeIdle ==
    /\ health_config = DefaultHealthCheckConfig
    /\ agent_support = FALSE
    /\ conn = [c \in ConnectionIds |-> "none"]
    /\ peer = [c \in ConnectionIds |-> "same_uid"]
    /\ active_bridges = EmptyMap
    /\ scanned = FALSE
    /\ credentials = EmptyMap
    /\ disk = EmptyMap
    /\ rpc = [c \in ConnectionIds |-> <<>>]
    /\ sessionsLock = <<>>
    /\ sessions = EmptyMap
    /\ chatCount = 0
    /\ contended = {}
    /\ failed = {}

\* Agent::new followed by new_session: an agent with an empty message list.
NewAgentSession == [messages |-> <<>>, model |-> "default"]

\* A process that has spawned no session actor: the task never starts.
ActorIdle ==
    /\ actorPhase = "stopped"
    /\ mailbox = <<>>
    /\ current = <<>>
    /\ actorAgent = NewAgentSession
    /\ replies = <<>>
    /\ streams = EmptyMap
    /\ dropped = {}
    /\ sentCount = 0

\* The call record of a vault nobody has called yet.
NoCall ==
    [at |-> 0, op |-> "none", id |-> <<>>, status |-> "none", value |-> <<>>,
     read_cache |-> FALSE, read_disk |-> FALSE]

\* A device with its master key in place and a vault nobody calls.
VaultIdle ==
    /\ device_key = "k1"
    /\ vaultLast = NoCall
    /\ written = EmptyMap
    /\ vaultOps = 0

\* No bridge client has connected.
ClientIdle ==
    /\ clientKind = "none"
    /\ serverVersion = <<>>
    /\ clientPhase = "absent"
    /\ exitCode = <<>>
    /\ calls = <<>>

\* CompiledToolFilter::permissive(), with nothing to check.
FilterIdle ==
    /\ toolFilter = [deny_substrings |-> <<>>, deny_patterns |-> <<>>,
                     allow_patterns |-> <<>>]
    /\ toolValue = <<>>
    /\ toolVerdict = <<>>
    /\ toolMerges = 0

\* No tool call has been executed yet.
NoToolCall ==
    [id |-> 0, tool |-> "none", input |-> <<>>, ok |-> FALSE, error |-> "none",
     spawned |-> FALSE, audited |-> 0, wrote |-> FALSE]

\* A session without messages on a machine without files.
ToolsIdle ==
    /\ allowed_dirs = {}
    /\ sandbox_policy = <<>>
    /\ fsys = EmptyMap
    /\ audit = <<>>
    /\ spawned = <<>>
    /\ transcript = <<>>
    /\ pending = <<>>
    /\ toolLast = NoToolCall

\* A router whose cache is empty and that nobody asks.
SearchIdle ==
    /\ ttl = 0
    /\ searchCache = EmptyMap
    /\ inflight = {}
    /\ searchLog = <<>>

\* The subsystems specified further down are at rest.
\* No skill is being loaded.
SkillsIdle ==
    /\ skillName = <<>>
    /\ commandName = <<>>
    /\ commandAgain = <<>>

\* No step of the bot has looked at the pairing.
NoBotStep ==
    [user |-> 0, step |-> "none", text |-> <<>>, pairedBefore |-> <<>>,
     pendingBefore |-> <<>>]

\* The bot is not running.
BotIdle ==
    /\ paired_user = <<>>
    /\ pending_pairing_code = <<>>
    /\ pairing_file = <<>>
    /\ botSessions = {}
    /\ updates = <<>>
    /\ pairedLock = <<>>
    /\ pendingLock = <<>>
    /\ botLast = NoBotStep
    /\ updateCount = 0

\* No system prompt is being built.
PromptIdle ==
    /\ skillList = <<>>
    /\ routing_ctx = <<>>
    /\ skillsPrompt = <<>>

\* No MCP server is configured.
McpIdle ==
    /\ mcpConfigs = <<>>
    /\ mcpCursor = 0
    /\ mcpClients = <<>>
    /\ mcpToolList = <<>>
    /\ mcpReturned = <<>>

\* No session is being pruned.
PruneIdle ==
    /\ sessionsDir = <<>>
    /\ pruneArgs = <<>>
    /\ previewed = <<>>
    /\ pruned = <<>>

\* The rate limiter is not built.
LimiterIdle ==
    /\ limiter = <<>>
    /\ buckets = <<>>
    /\ limiterLast = <<>>

LastIdle == PromptIdle /\ McpIdle /\ PruneIdle /\ LimiterIdle

LateIdle == SkillsIdle /\ BotIdle /\ LastIdle

RestIdle == ToolsIdle /\ SearchIdle /\ supervisor = "none" /\ LateIdle

\* The smallest element of a non-empty set of numbers.
MinOf(S) == CHOOSE x \in S : \A y \in S : x <= y

(***************************************************************************)
(*                         CRON SCHEDULER                                  *)
(***************************************************************************)

\* Job names a configuration may use; nothing makes them unique.
JobNames == {"a", "b"}

\* Schedule strings of the configuration, already split into the pieces
\* Schedule::parse looks at: "every <num><suffix>" or a cron expression.
\* The cron expressions are the five-field "*/step * * * *" (every step
\* minutes); step 0 stands for an expression croner rejects.
ScheduleStrs ==
    [every : {TRUE}, num : {0, 10}, suffix : {"m", "x"}, step : {0}]
      \cup [every : {FALSE}, num : {0}, suffix : {""}, step : {0, 20}]

\* Timeout strings of the configuration: "20m" parses, "soon" does not.
TimeoutStrs == {"20m", "soon"}

\* config::CronJob
CronJobs ==
    [name : JobNames, schedule : ScheduleStrs, timeout : TimeoutStrs,
     enabled : BOOLEAN]

\* parse_interval: the number times the unit of the suffix, or an error (None).
parse_interval(num, suffix) ==
    CASE suffix = "s" -> num
      [] suffix = "m" -> num * 60
      [] suffix = "h" -> num * 3600
      [] suffix = "d" -> num * 86400
      [] OTHER -> None

\* Schedule::parse: an Interval, a Cron schedule, or an error.
ScheduleParse(s) ==
    IF s.every
    THEN IF parse_interval(s.num, s.suffix) = None
         THEN [kind |-> "Err", secs |-> 0, step |-> 0]
         ELSE [kind |-> "Interval", secs |-> parse_interval(s.num, s.suffix),
               step |-> 0]
    ELSE IF s.step = 0
         THEN [kind |-> "Err", secs |-> 0, step |-> 0]
         ELSE [kind |-> "Cron", secs |-> 0, step |-> s.step]

\* The occurrences of the cron schedule "*/step * * * *": the instants that
\* are a whole multiple of step minutes.
IsCronOccurrence(step, t) == t % (step * 60) = 0

\* Schedule::next_after: the next run time after `after`.  A cron schedule
\* gives its first occurrence strictly later than `after` (inclusive = false);
\* an interval gives after + duration.
next_after(schedule, after) ==
    IF schedule.kind = "Cron"
    THEN ((after \div (schedule.step * 60)) + 1) * (schedule.step * 60)
    ELSE after + schedule.secs

\* The timeout of a job's task: parse_duration(timeout) or 600 seconds.
DefaultTimeoutSecs == 600

\* The clock is read every ten minutes: the default timeout is one step.
ClockStep == DefaultTimeoutSecs

\* The instants at which the clock is read.
Instants == {k * ClockStep : k \in 0..MaxSteps}

parse_duration(s) == IF s = "20m" THEN 20 * 60 ELSE None

JobTimeout(timeout_str) ==
    IF parse_duration(timeout_str) = None
    THEN DefaultTimeoutSecs
    ELSE parse_duration(timeout_str)

RECURSIVE SelectSeqBy(_, _)
\* The subsequence of s whose elements satisfy keep (a function to BOOLEAN).
SelectSeqBy(s, keep) ==
    IF s = <<>> THEN <<>>
    ELSE IF keep[Head(s)]
         THEN <<Head(s)>> \o SelectSeqBy(Tail(s), keep)
         ELSE SelectSeqBy(Tail(s), keep)

\* CronScheduler::new: the enabled jobs whose schedule parses, in
\* configuration order, each due at its first run time after `now`.
CronSchedulerNew(cfg, now) ==
    LET keep == [j \in CronJobs |->
                    j.enabled /\ ScheduleParse(j.schedule).kind # "Err"]
        kept == SelectSeqBy(cfg, keep)
    IN  [i \in 1..Len(kept) |->
            [name     |-> kept[i].name,
             timeout  |-> kept[i].timeout,
             schedule |-> ScheduleParse(kept[i].schedule),
             next_run |-> next_after(ScheduleParse(kept[i].schedule), now),
             running  |-> FALSE]]

\* tick's test of one job: skipped while running or before next_run.
IsDue(job, now) == ~(job.running \/ now < job.next_run)

\* A tick that leaves next_run as it is.
AdvanceNextRunSkipped(job, now) == job

\* tick, lines 85-88: advance next_run at spawn time.
AdvanceNextRun(job, now) ==
    [job EXCEPT !.next_run = next_after(job.schedule, now)]

\* tick's effect on one due job: mark it running and advance next_run.
SpawnJob(job, now) == AdvanceNextRun([job EXCEPT !.running = TRUE], now)

\* The task tick spawns for job i: it carries the job's name (job_name) and
\* runs run_job under the job's timeout.  `job` records which entry spawned it.
NewTask(i, now) ==
    [job |-> i, name |-> jobs[i].name, started |-> now,
     deadline |-> now + JobTimeout(jobs[i].timeout)]

\* CronScheduler::tick at clock value now: every due job is spawned.
Tick ==
    /\ ~ticked
    /\ LET now == clock
           due == {i \in DOMAIN jobs : IsDue(jobs[i], now)}
       IN  /\ jobs' = [i \in DOMAIN jobs |->
                          IF i \in due THEN SpawnJob(jobs[i], now) ELSE jobs[i]]
           /\ tasks' = tasks \cup {NewTask(i, now) : i \in due}
           /\ spawnTimes' = [i \in DOMAIN jobs |->
                          IF i \in due THEN spawnTimes[i] \cup {now}
                          ELSE spawnTimes[i]]
           /\ dueSlots' = [i \in DOMAIN jobs |->
                          dueSlots[i] \cup {jobs'[i].next_run}]
           /\ tickTimes' = tickTimes \cup {now}
    /\ ticked' = TRUE
    /\ UNCHANGED <<clock, nonCronVars>>

\* The end of a spawned task, lines 118-122: the first job whose name is the
\* task's job_name has its running flag cleared.
ClearRunning(js, job_name) ==
    LET named == {i \in DOMAIN js : js[i].name = job_name}
    IN  IF named = {} THEN js
        ELSE [js EXCEPT ![MinOf(named)].running = FALSE]

TaskEnds(t) ==
    /\ jobs' = ClearRunning(jobs, t.name)
    /\ tasks' = tasks \ {t}
    /\ UNCHANGED <<clock, ticked, spawnTimes, tickTimes, dueSlots, nonCronVars>>

\* run_job returned a response before the timeout: Ok(Ok(response)).
JobResponds == \E t \in tasks : clock <= t.deadline /\ TaskEnds(t)

\* run_job returned an error before the timeout: Ok(Err(e)).
JobFails == \E t \in tasks : clock <= t.deadline /\ TaskEnds(t)

\* tokio::time::timeout expired: Err(_).
JobTimesOut == \E t \in tasks : clock >= t.deadline /\ TaskEnds(t)

\* Time passes.  A task's timeout fires when its deadline is reached, so the
\* clock does not pass the deadline of a task that still runs.
CronAdvance ==
    /\ clock < MaxSteps * ClockStep
    /\ \A t \in tasks : clock < t.deadline
    /\ clock' = clock + ClockStep
    /\ ticked' = FALSE
    /\ UNCHANGED <<jobs, tasks, spawnTimes, tickTimes, dueSlots, nonCronVars>>

CronConfigs == [1..NJobs -> CronJobs]

CronInit ==
    /\ clock = 0
    /\ \E cfg \in CronConfigs : jobs = CronSchedulerNew(cfg, 0)
    /\ tasks = {}
    /\ ticked = TRUE
    /\ spawnTimes = [i \in DOMAIN jobs |-> {}]
    /\ tickTimes = {}
    /\ dueSlots = [i \in DOMAIN jobs |-> {jobs[i].next_run}]
    /\ BridgeIdle
    /\ ActorIdle
    /\ VaultIdle
    /\ ClientIdle
    /\ FilterIdle
    /\ RestIdle

CronNext ==
    \/ Tick
    \/ JobResponds
    \/ JobFails
    \/ JobTimesOut
    \/ CronAdvance

SpecCron == CronInit /\ [][CronNext]_vars

(***************************************************************************)
(*                     PROPERTIES OF THE SCHEDULER                         *)
(***************************************************************************)

\* The executions of job i that are in flight.
InFlight(i) == {t \in tasks : t.job = i}

\* The instants of the window [t1, t2] at which job i was spawned.
SpawnsIn(i, t1, t2) == {t \in spawnTimes[i] : t1 <= t /\ t <= t2}

\* The schedule occurrences of job i in the window [t1, t2]: the occurrences
\* of its cron expression, or for an interval the instants at which it fell
\* due (the values of next_run).
OccurrencesIn(i, t1, t2) ==
    {t \in Instants :
        /\ t1 <= t /\ t <= t2
        /\ IF jobs[i].schedule.kind = "Cron"
           THEN IsCronOccurrence(jobs[i].schedule.step, t)
           ELSE t \in dueSlots[i]}

\* C1: tick never spawns a job that is running, so at most one execution of
\* any given job is in flight at any time.
C1_AtMostOneExecution ==
    \A i \in DOMAIN jobs : Cardinality(InFlight(i)) <= 1

C3_NextRunStrictlyAdvanced ==
    [][\A i \in DOMAIN jobs :
          (~jobs[i].running /\ jobs'[i].running) =>
              /\ jobs'[i].next_run > clock
              /\ jobs'[i].next_run > jobs[i].next_run]_vars

\* C4: once the execution of a job has ended (response, error or timeout)
\* its running flag is false again: a job that is marked running has an
\* execution in flight.
C4_RunningClearedAtEnd ==
    \A i \in DOMAIN jobs : jobs[i].running => InFlight(i) # {}


(***************************************************************************)
(*                          BRIDGE MANAGER                                 *)
(*                                                                         *)
(* Time is counted in seconds here and the clock advances by one second.   *)
(* Option<T> is a sequence: <<>> for None, <<v>> for Some(v).              *)
(***************************************************************************)

\* The thresholds a manager may be built with (with_health_config takes any
\* pair, ordered or not): degraded at once and unhealthy after a second, or
\* the two the other way round.
HealthCheckConfigs ==
    {[degraded_threshold |-> 0, unhealthy_threshold |-> 1],
     [degraded_threshold |-> 1, unhealthy_threshold |-> 0]}

\* What get_peer_identity and the uid comparison of serve() can find.
PeerIdentities == {"same_uid", "no_uid", "other_uid", "error"}

\* serve(): the identity must be readable and its uid, when known, must be
\* the uid of this process.
PeerAdmitted(identity) == identity \in {"same_uid", "no_uid"}

\* The models set_model may name.
ModelNames == {"default", "other"}

\* A bridge id is a sequence of characters.  The ASCII letters and digits
\* that occur in the ids of the model:
AsciiAlphanumeric ==
    {"a", "e", "g", "l", "m", "r", "t", "x", "Z", "7"}

\* str::len counts bytes: a character outside ASCII takes more than one.
Utf8Len(ch) == IF ch = "é" THEN 2 ELSE 1

\* The bytes of the first n characters of id.
RECURSIVE Utf8Bytes(_, _)
Utf8Bytes(id, n) == IF n = 0 THEN 0 ELSE Utf8Len(id[n]) + Utf8Bytes(id, n - 1)

StrLen(id) == Utf8Bytes(id, Len(id))

MaxBridgeIdLen == 64

\* A validation that refuses the empty id only.
validate_bridge_id_nonempty(id) == id # <<>>

\* validate_bridge_id: not empty, at most 64 bytes, every character an
\* ASCII letter or digit, '-' or '_'.
validate_bridge_id(id) ==
    /\ id # <<>>
    /\ ~(StrLen(id) > MaxBridgeIdLen)
    /\ \A i \in 1..Len(id) : id[i] \in AsciiAlphanumeric \cup {"-", "_"}

\* derive_bridge_key: HMAC-SHA256(master_key, "bridge-key:" + bridge_id); a
\* different master key or a different id gives a different key.
derive_bridge_key(master_key, bridge_id) == <<master_key, bridge_id>>

\* ChaCha20Poly1305 encrypt: the ciphertext with its tag, which binds the
\* key, the nonce and the plaintext.
Encrypt(key, nonce, plaintext) ==
    [key |-> key, nonce |-> nonce, plaintext |-> plaintext, tag |-> "intact"]

\* A decryption that does not verify the tag.
DecryptUnverified(key, nonce, ciphertext) == <<ciphertext.plaintext>>

\* ChaCha20Poly1305 decrypt: the plaintext (an Option) if the tag verifies
\* under this key and nonce.
Decrypt(key, nonce, ciphertext) ==
    IF /\ ciphertext.key = key
       /\ ciphertext.nonce = nonce
       /\ ciphertext.tag = "intact"
    THEN <<ciphertext.plaintext>>
    ELSE <<>>

\* register_bridge, lines 278-297: the file [Nonce (12 bytes)][Ciphertext].
CredentialFile(master_key, bridge_id, nonce, secret) ==
    [size |-> "whole", nonce |-> nonce,
     ciphertext |-> Encrypt(derive_bridge_key(master_key, bridge_id), nonce, secret)]

\* The credential files on disk when the manager starts: an earlier run
\* has registered bridge "telegram".
RegisteredDisk ==
    [id \in {TelegramId} |-> CredentialFile("k1", TelegramId, "n1", "abc")]

\* load_credentials_from_disk: the plaintext (an Option); none if the file
\* is missing or shorter than a nonce, if the device key cannot be read, or
\* if decryption fails.
load_credentials_from_disk(files, master_key, bridge_id) ==
    IF bridge_id \notin DOMAIN files THEN <<>>
    ELSE IF files[bridge_id].size # "whole" THEN <<>>
    ELSE IF master_key = "unreadable" THEN <<>>
    ELSE Decrypt(derive_bridge_key(master_key, bridge_id),
                 files[bridge_id].nonce, files[bridge_id].ciphertext)

\* (now - last_active).to_std().unwrap_or(Duration::ZERO)
Elapsed(now, last_active) ==
    IF now - last_active < 0 THEN 0 ELSE now - last_active

\* A scan that counts a connection as late from the threshold on.
HealthOfInclusive(elapsed, config) ==
    IF elapsed >= config.unhealthy_threshold THEN "Unhealthy"
    ELSE IF elapsed >= config.degraded_threshold THEN "Degraded"
    ELSE "Healthy"

\* check_bridge_health, lines 171-180: the health a scan gives a connection.
HealthOf(elapsed, config) ==
    IF elapsed > config.unhealthy_threshold THEN "Unhealthy"
    ELSE IF elapsed > config.degraded_threshold THEN "Degraded"
    ELSE "Healthy"

\* check_bridge_health's effect on one BridgeStatus.
ScanStatus(status, now, config) ==
    LET health == HealthOf(Elapsed(now, status.last_active), config)
    IN  [status EXCEPT
            !.health = health,
            !.consecutive_failures = IF health = "Healthy" THEN 0 ELSE @ + 1]

\* add_connection: the BridgeStatus of a connection just accepted.
NewBridgeStatus(id, now) ==
    [connection_id |-> id, bridge_id |-> <<>>, connected_at |-> now,
     last_active |-> now, health |-> "Healthy", consecutive_failures |-> 0]

add_connection(bridges, id, now) ==
    [x \in DOMAIN bridges \cup {id} |->
        IF x = id THEN NewBridgeStatus(id, now) ELSE bridges[x]]

\* An update_active that leaves the health as it is.
update_active_keeps_health(bridges, id, bridge_id, now) ==
    IF id \in DOMAIN bridges
    THEN [bridges EXCEPT ![id] =
            [@ EXCEPT !.last_active = now,
                      !.consecutive_failures = 0,
                      !.bridge_id = IF bridge_id # <<>> THEN bridge_id ELSE @]]
    ELSE bridges

\* An update_active that leaves the failure counter as it is.
update_active_keeps_failures(bridges, id, bridge_id, now) ==
    IF id \in DOMAIN bridges
    THEN [bridges EXCEPT ![id] =
            [@ EXCEPT !.last_active = now,
                      !.health = "Healthy",
                      !.bridge_id = IF bridge_id # <<>> THEN bridge_id ELSE @]]
    ELSE bridges

\* An update_active that stamps the connection with the second before now.
update_active_backdated(bridges, id, bridge_id, now) ==
    IF id \in DOMAIN bridges
    THEN [bridges EXCEPT ![id] =
            [@ EXCEPT !.last_active = now - 1,
                      !.health = "Healthy",
                      !.consecutive_failures = 0,
                      !.bridge_id = IF bridge_id # <<>> THEN bridge_id ELSE @]]
    ELSE bridges

\* update_active: the connection, if registered, was seen now.
update_active(bridges, id, bridge_id, now) ==
    IF id \in DOMAIN bridges
    THEN [bridges EXCEPT ![id] =
            [@ EXCEPT !.last_active = now,
                      !.health = "Healthy",
                      !.consecutive_failures = 0,
                      !.bridge_id = IF bridge_id # <<>> THEN bridge_id ELSE @]]
    ELSE bridges

\* A remove_connection that leaves the registry as it is.
remove_connection_skipped(bridges, id) == bridges

remove_connection(bridges, id) == RemoveKey(bridges, id)

\* A map with key k set to v (HashMap::insert).
PutKey(m, k, v) == [x \in DOMAIN m \cup {k} |-> IF x = k THEN v ELSE m[x]]

\* A get_credentials_for that goes to the disk every time.
get_credentials_for_uncached(cache, files, master_key, bridge_id) ==
    LET loaded == load_credentials_from_disk(files, master_key, bridge_id)
    IN  IF ~validate_bridge_id(bridge_id)
        THEN [status |-> "AuthFailed", value |-> <<>>, read_cache |-> FALSE,
              read_disk |-> FALSE, cache |-> cache]
        ELSE IF loaded # <<>>
        THEN [status |-> "Ok", value |-> loaded, read_cache |-> FALSE,
              read_disk |-> TRUE, cache |-> PutKey(cache, bridge_id, loaded[1])]
        ELSE [status |-> "NotRegistered", value |-> <<>>, read_cache |-> FALSE,
              read_disk |-> TRUE, cache |-> cache]

\* get_credentials_for: what the call returns, what it read, and the cache
\* after it.  An invalid id is refused (AuthFailed); a cached secret is
\* returned; otherwise the file is loaded from disk and cached, or the call
\* fails (NotRegistered).
get_credentials_for(cache, files, master_key, bridge_id) ==
    LET loaded == load_credentials_from_disk(files, master_key, bridge_id)
    IN  IF ~validate_bridge_id(bridge_id)
        THEN [status |-> "AuthFailed", value |-> <<>>, read_cache |-> FALSE,
              read_disk |-> FALSE, cache |-> cache]
        ELSE IF bridge_id \in DOMAIN cache
        THEN [status |-> "Ok", value |-> <<cache[bridge_id]>>, read_cache |-> TRUE,
              read_disk |-> FALSE, cache |-> cache]
        ELSE IF loaded # <<>>
        THEN [status |-> "Ok", value |-> loaded, read_cache |-> TRUE,
              read_disk |-> TRUE, cache |-> PutKey(cache, bridge_id, loaded[1])]
        ELSE [status |-> "NotRegistered", value |-> <<>>, read_cache |-> TRUE,
              read_disk |-> TRUE, cache |-> cache]

\* What the session requests leave alone.
sessionVars == <<rpc, sessionsLock, sessions, chatCount, contended, failed>>
configVars == <<health_config, agent_support, disk, peer>>

\* serve(): a connection of this user (or of a peer whose uid is unknown)
\* is accepted and registered.
AcceptConnection(c) ==
    /\ conn[c] = "none"
    /\ PeerAdmitted(peer[c])
    /\ active_bridges' = add_connection(active_bridges, c, clock)
    /\ conn' = [conn EXCEPT ![c] = "open"]
    /\ UNCHANGED <<clock, nonBridgeVars, configVars, scanned, credentials, sessionVars>>

\* serve(): a connection of another user, or one whose identity cannot be
\* read, is dropped before it is registered.
RejectConnection(c) ==
    /\ conn[c] = "none"
    /\ ~PeerAdmitted(peer[c])
    /\ conn' = [conn EXCEPT ![c] = "rejected"]
    /\ UNCHANGED <<clock, nonBridgeVars, configVars, scanned, active_bridges, credentials,
                   sessionVars>>

\* The transport of a connection closes: handle_connection returns once the
\* request it is serving has been answered.
TransportCloses(c) ==
    /\ conn[c] = "open"
    /\ rpc[c] = <<>>
    /\ conn' = [conn EXCEPT ![c] = "finished"]
    /\ UNCHANGED <<clock, nonBridgeVars, configVars, scanned, active_bridges, credentials,
                   sessionVars>>

\* The connection task, after handle_connection: remove_connection.
RemoveConnection(c) ==
    /\ conn[c] = "finished"
    /\ conn' = [conn EXCEPT ![c] = "removed"]
    /\ active_bridges' = remove_connection(active_bridges, c)
    /\ UNCHANGED <<clock, nonBridgeVars, configVars, scanned, credentials, sessionVars>>

\* check_bridge_health: one scan over all registered connections.  The
\* checker's timer fires at most once per clock value.
check_bridge_health ==
    /\ ~scanned
    /\ active_bridges' =
          [id \in DOMAIN active_bridges |->
              ScanStatus(active_bridges[id], clock, health_config)]
    /\ scanned' = TRUE
    /\ UNCHANGED <<clock, nonBridgeVars, configVars, conn, credentials, sessionVars>>

\* One second passes.
BridgeAdvance ==
    /\ clock < MaxSeconds
    /\ clock' = clock + 1
    /\ scanned' = FALSE
    /\ UNCHANGED <<nonBridgeVars, configVars, conn, active_bridges, credentials,
                   sessionVars>>


(***************************************************************************)
(* The RPCs of a connection (impl BridgeService for ConnectionHandler).    *)
(* handle_connection serves the requests of one connection one after the   *)
(* other, so a connection takes a request only when it serves none.        *)
(***************************************************************************)
Serving(c) == conn[c] = "open" /\ rpc[c] = <<>>

get_version(c) ==
    /\ Serving(c)
    /\ active_bridges' = update_active(active_bridges, c, <<>>, clock)
    /\ UNCHANGED <<clock, nonBridgeVars, configVars, scanned, conn, credentials, sessionVars>>

ping(c) ==
    /\ Serving(c)
    /\ active_bridges' = update_active(active_bridges, c, <<>>, clock)
    /\ UNCHANGED <<clock, nonBridgeVars, configVars, scanned, conn, credentials, sessionVars>>

get_credentials(c, bridge_id) ==
    /\ Serving(c)
    /\ active_bridges' = update_active(active_bridges, c, <<bridge_id>>, clock)
    /\ credentials' =
          get_credentials_for(credentials, disk, device_key, bridge_id).cache
    /\ UNCHANGED <<clock, nonBridgeVars, configVars, scanned, conn, sessionVars>>

\* memory_search and memory_stats read the memory index (or return
\* NotSupported without agent support).
memory_search(c) ==
    /\ Serving(c)
    /\ active_bridges' = update_active(active_bridges, c, <<>>, clock)
    /\ UNCHANGED <<clock, nonBridgeVars, configVars, scanned, conn, credentials, sessionVars>>

memory_stats(c) ==
    /\ Serving(c)
    /\ active_bridges' = update_active(active_bridges, c, <<>>, clock)
    /\ UNCHANGED <<clock, nonBridgeVars, configVars, scanned, conn, credentials, sessionVars>>

\* The chats that are in flight on session s: dispatched, not yet answered.
ChatsInFlight(s) ==
    {c \in ConnectionIds :
        rpc[c] # <<>> /\ rpc[c][1].method = "chat" /\ rpc[c][1].session = s}

\* The start of a session request: update_active, then NotSupported without
\* agent support, else the handler queues for the sessions mutex.
SessionRequest(c, method, s, req, model) ==
    /\ Serving(c)
    /\ active_bridges' = update_active(active_bridges, c, <<>>, clock)
    /\ IF agent_support
       THEN /\ rpc' = [rpc EXCEPT ![c] =
                        <<[method |-> method, session |-> s, req |-> req,
                           model |-> model, stage |-> "locking"]>>]
            /\ sessionsLock' = Append(sessionsLock, c)
       ELSE UNCHANGED <<rpc, sessionsLock>>
    /\ UNCHANGED <<clock, nonBridgeVars, configVars, scanned, conn, credentials, sessions,
                   failed>>

chat(c, s) ==
    /\ chatCount < MaxChats
    /\ SessionRequest(c, "chat", s, chatCount + 1, "")
    /\ chatCount' = chatCount + 1
    /\ contended' = IF agent_support /\ ChatsInFlight(s) # {}
                    THEN contended \cup {chatCount + 1} ELSE contended

new_session(c, s) ==
    SessionRequest(c, "new_session", s, 0, "") /\ UNCHANGED <<chatCount, contended>>

session_status(c, s) ==
    SessionRequest(c, "session_status", s, 0, "") /\ UNCHANGED <<chatCount, contended>>

set_model(c, s, model) ==
    SessionRequest(c, "set_model", s, 0, model) /\ UNCHANGED <<chatCount, contended>>

compact_session(c, s) ==
    SessionRequest(c, "compact_session", s, 0, "") /\ UNCHANGED <<chatCount, contended>>

clear_session(c, s) ==
    SessionRequest(c, "clear_session", s, 0, "") /\ UNCHANGED <<chatCount, contended>>



(***************************************************************************)
(* The session requests of a manager with agent support.  The handler      *)
(* takes the one sessions mutex (a fair tokio Mutex: waiters are served in *)
(* arrival order) and holds it until it returns.  What Agent does to the   *)
(* message list follows the turn loop: a chat appends the User message,    *)
(* calls the provider and appends the Assistant message.                   *)
(***************************************************************************)

\* A mutex that lets every queued handler in.
HoldsSessionsLockUnguarded(c) ==
    \E i \in DOMAIN sessionsLock : sessionsLock[i] = c

\* support.sessions.lock().await has returned for the handler of c.
HoldsSessionsLock(c) ==
    sessionsLock # <<>> /\ Head(sessionsLock) = c

\* The handler of c serves `method` and holds the sessions mutex.
Locked(c, method) ==
    /\ rpc[c] # <<>>
    /\ rpc[c][1].method = method
    /\ HoldsSessionsLock(c)

\* The handler of c returns: the MutexGuard is dropped, the request is over.
Returns(c) ==
    /\ rpc' = [rpc EXCEPT ![c] = <<>>]
    /\ sessionsLock' = SelectSeq(sessionsLock, LAMBDA x : x # c)

\* The session table with session s set to v.
PutSession(table, s, v) ==
    [x \in DOMAIN table \cup {s} |-> IF x = s THEN v ELSE table[x]]

\* The session table after Agent appended message m to session s.
AppendMessage(table, s, m) ==
    [table EXCEPT ![s].messages = Append(@, m)]

\* Agent::compact_session: the history is replaced by one System summary.
Compacted(messages) ==
    IF messages = <<>> THEN messages
    ELSE <<[role |-> "System", req |-> 0]>>

frameOfSessions ==
    <<clock, nonBridgeVars, configVars, scanned, conn, active_bridges, credentials,
      chatCount, contended>>

\* chat, lines 525-540: the session is vacant and creating its agent fails;
\* Internal is returned.
chat_create_fails(c) ==
    /\ Locked(c, "chat")
    /\ rpc[c][1].stage = "locking"
    /\ rpc[c][1].session \notin DOMAIN sessions
    /\ Returns(c)
    /\ UNCHANGED <<frameOfSessions, sessions, failed>>

\* chat, lines 522-548: the session is created if it is vacant and
\* agent.chat starts the turn by appending the User message.
chat_begins(c) ==
    /\ Locked(c, "chat")
    /\ rpc[c][1].stage = "locking"
    /\ LET s == rpc[c][1].session
           table == IF s \in DOMAIN sessions THEN sessions
                    ELSE PutSession(sessions, s, NewAgentSession)
       IN  sessions' = AppendMessage(table, s,
                          [role |-> "User", req |-> rpc[c][1].req])
    /\ rpc' = [rpc EXCEPT ![c][1].stage = "chatting"]
    /\ UNCHANGED <<frameOfSessions, sessionsLock, failed>>

\* chat, lines 545-559: agent.chat returns the response after appending the
\* Assistant message; the session is saved and the response returned.
chat_returns(c) ==
    /\ rpc[c] # <<>>
    /\ rpc[c][1].stage = "chatting"
    /\ sessions' = AppendMessage(sessions, rpc[c][1].session,
                      [role |-> "Assistant", req |-> rpc[c][1].req])
    /\ Returns(c)
    /\ UNCHANGED <<frameOfSessions, failed>>

\* chat, lines 545-549: agent.chat fails (provider error); Internal is
\* returned and the User message stays in the list.
chat_errors(c) ==
    /\ rpc[c] # <<>>
    /\ rpc[c][1].stage = "chatting"
    /\ failed' = failed \cup {rpc[c][1].req}
    /\ Returns(c)
    /\ UNCHANGED <<frameOfSessions, sessions>>

\* A new_session that takes the old session out of the table before it
\* builds the new agent, and so loses it when that fails.
new_session_runs_vacating(c) ==
    /\ Locked(c, "new_session")
    /\ \/ sessions' = PutSession(sessions, rpc[c][1].session, NewAgentSession)
       \/ sessions' = [x \in DOMAIN sessions \ {rpc[c][1].session} |->
                          sessions[x]]
    /\ Returns(c)
    /\ UNCHANGED <<frameOfSessions, failed>>

\* new_session, lines 574-596: a fresh agent replaces the session, or
\* creating it fails and the table stays as it is.
new_session_runs(c) ==
    /\ Locked(c, "new_session")
    /\ \/ sessions' = PutSession(sessions, rpc[c][1].session, NewAgentSession)
       \/ UNCHANGED sessions
    /\ Returns(c)
    /\ UNCHANGED <<frameOfSessions, failed>>

\* session_status, lines 611-635: reads the session ("No active session"
\* when there is none).
session_status_runs(c) ==
    /\ Locked(c, "session_status")
    /\ Returns(c)
    /\ UNCHANGED <<frameOfSessions, sessions, failed>>

\* set_model, lines 651-661: the session's agent switches model, unless
\* there is no session or the agent refuses the model.
set_model_runs(c) ==
    /\ Locked(c, "set_model")
    /\ \/ /\ rpc[c][1].session \in DOMAIN sessions
          /\ sessions' = [sessions EXCEPT
                            ![rpc[c][1].session].model = rpc[c][1].model]
       \/ UNCHANGED sessions
    /\ Returns(c)
    /\ UNCHANGED <<frameOfSessions, failed>>

\* compact_session, lines 676-690: the session is compacted, unless there
\* is no session or compaction fails.
compact_session_runs(c) ==
    /\ Locked(c, "compact_session")
    /\ \/ /\ rpc[c][1].session \in DOMAIN sessions
          /\ sessions' = [sessions EXCEPT
                            ![rpc[c][1].session].messages = Compacted(@)]
       \/ UNCHANGED sessions
    /\ Returns(c)
    /\ UNCHANGED <<frameOfSessions, failed>>

\* clear_session, lines 705-711: the message list of the session is
\* emptied ("No active session" when there is none).
clear_session_runs(c) ==
    /\ Locked(c, "clear_session")
    /\ IF rpc[c][1].session \in DOMAIN sessions
       THEN sessions' = [sessions EXCEPT ![rpc[c][1].session].messages = <<>>]
       ELSE UNCHANGED sessions
    /\ Returns(c)
    /\ UNCHANGED <<frameOfSessions, failed>>

(***************************************************************************)
(* The manager of BridgeManager::new_with_agent_support: default           *)
(* thresholds, agent support.  This specification follows the session      *)
(* requests of the accepted connections; the health checker is not started *)
(* and the run is short against the thresholds, so the clock stays where   *)
(* it is.  The other RPCs and the end of a connection touch the registry   *)
(* and the credentials only; SpecBridgeHealth follows them.                *)
(***************************************************************************)
BridgeChatInit ==
    /\ clock = 0
    /\ CronIdle
    /\ ActorIdle
    /\ VaultIdle
    /\ ClientIdle
    /\ FilterIdle
    /\ RestIdle
    /\ health_config = DefaultHealthCheckConfig
    /\ agent_support = TRUE
    /\ conn = [c \in ConnectionIds |-> "none"]
    /\ peer = [c \in ConnectionIds |-> "same_uid"]
    /\ active_bridges = EmptyMap
    /\ scanned = FALSE
    /\ credentials = EmptyMap
    /\ disk = EmptyMap
    /\ rpc = [c \in ConnectionIds |-> <<>>]
    /\ sessionsLock = <<>>
    /\ sessions = EmptyMap
    /\ chatCount = 0
    /\ contended = {}
    /\ failed = {}

BridgeChatNext ==
    \/ \E c \in ConnectionIds : AcceptConnection(c)
    \/ \E c \in ConnectionIds, s \in SessionIds : chat(c, s)
    \/ \E c \in ConnectionIds, s \in SessionIds : new_session(c, s)
    \/ \E c \in ConnectionIds, s \in SessionIds : session_status(c, s)
    \/ \E c \in ConnectionIds, s \in SessionIds, model \in ModelNames :
          set_model(c, s, model)
    \/ \E c \in ConnectionIds, s \in SessionIds : compact_session(c, s)
    \/ \E c \in ConnectionIds, s \in SessionIds : clear_session(c, s)
    \/ \E c \in ConnectionIds : chat_create_fails(c)
    \/ \E c \in ConnectionIds : chat_begins(c)
    \/ \E c \in ConnectionIds : chat_returns(c)
    \/ \E c \in ConnectionIds : chat_errors(c)
    \/ \E c \in ConnectionIds : new_session_runs(c)
    \/ \E c \in ConnectionIds : session_status_runs(c)
    \/ \E c \in ConnectionIds : set_model_runs(c)
    \/ \E c \in ConnectionIds : compact_session_runs(c)
    \/ \E c \in ConnectionIds : clear_session_runs(c)

SpecBridgeChat == BridgeChatInit /\ [][BridgeChatNext]_vars

(***************************************************************************)
(*                   PROPERTIES OF SESSION REQUESTS                        *)
(***************************************************************************)

\* The connections whose chat on session s has started its turn.
TurnsOpen(s) ==
    {c \in ChatsInFlight(s) : rpc[c][1].stage = "chatting"}

\* Chat request r is in its turn.
TurnOpenOf(r) ==
    \E c \in ConnectionIds :
        rpc[c] # <<>> /\ rpc[c][1].stage = "chatting" /\ rpc[c][1].req = r

\* C5: chats of one session are serialised: a turn does not start while
\* another turn of the session is open, and in the transcript every
\* Assistant message directly follows the User message of its own request,
\* every User message is directly followed by its Assistant message unless
\* its chat failed or is still in its turn: no two turns interleave.
C5_TurnsDoNotInterleave ==
    /\ \A s \in SessionIds : Cardinality(TurnsOpen(s)) <= 1
    /\ \A s \in DOMAIN sessions :
          LET m == sessions[s].messages
          IN  \A k \in 1..Len(m) :
                /\ m[k].role = "Assistant" =>
                      /\ k > 1
                      /\ m[k - 1] = [role |-> "User", req |-> m[k].req]
                /\ (m[k].role = "User" /\ k < Len(m)) =>
                      \/ m[k + 1] = [role |-> "Assistant", req |-> m[k].req]
                      \/ m[k].req \in failed
                /\ (m[k].role = "User" /\ k = Len(m)) =>
                      \/ TurnOpenOf(m[k].req)
                      \/ m[k].req \in failed

\* C5 witness: two chats of one session were in flight at once and the
\* transcript has grown by [user, assistant, user, assistant].
C5_Witness ==
    \E s \in DOMAIN sessions : \E r1, r2 \in 1..MaxChats :
        /\ r1 < r2
        /\ r2 \in contended
        /\ sessions[s].messages =
              <<[role |-> "User", req |-> r1], [role |-> "Assistant", req |-> r1],
                [role |-> "User", req |-> r2], [role |-> "Assistant", req |-> r2]>>

\* C7: a chat in flight on one session never delays a request addressed to
\* a different session: while the chat is in its turn, no request for
\* another session waits.
C7_OtherSessionsNotDelayed ==
    \A c1, c2 \in ConnectionIds :
        (/\ rpc[c1] # <<>>
         /\ rpc[c1][1].method = "chat"
         /\ rpc[c1][1].stage = "chatting"
         /\ rpc[c2] # <<>>
         /\ rpc[c2][1].session # rpc[c1][1].session)
            => ~(rpc[c2][1].stage = "locking" /\ ~HoldsSessionsLock(c2))

(***************************************************************************)
(* The manager of BridgeManager::with_health_config: custom thresholds,    *)
(* no agent support; connections come and go, clients call the RPCs, the   *)
(* health checker scans, time passes.                                      *)
(***************************************************************************)
BridgeHealthInit ==
    /\ clock = 0
    /\ CronIdle
    /\ ActorIdle
    /\ VaultIdle
    /\ ClientIdle
    /\ FilterIdle
    /\ RestIdle
    /\ health_config \in HealthCheckConfigs
    /\ agent_support = FALSE
    /\ conn = [c \in ConnectionIds |-> "none"]
    /\ peer \in [ConnectionIds -> {"same_uid", "other_uid"}]
    /\ active_bridges = EmptyMap
    /\ scanned = FALSE
    /\ credentials = EmptyMap
    /\ disk = RegisteredDisk
    /\ rpc = [c \in ConnectionIds |-> <<>>]
    /\ sessionsLock = <<>>
    /\ sessions = EmptyMap
    /\ chatCount = 0
    /\ contended = {}
    /\ failed = {}

\* Some request is dispatched on connection c.
RpcDispatched(c) ==
    \/ get_version(c)
    \/ ping(c)
    \/ \E b \in BridgeIds : get_credentials(c, b)
    \/ memory_search(c)
    \/ memory_stats(c)
    \/ \E s \in SessionIds :
          \/ chat(c, s)
          \/ new_session(c, s)
          \/ session_status(c, s)
          \/ \E model \in ModelNames : set_model(c, s, model)
          \/ compact_session(c, s)
          \/ clear_session(c, s)

BridgeHealthNext ==
    \/ \E c \in ConnectionIds : AcceptConnection(c)
    \/ \E c \in ConnectionIds : RejectConnection(c)
    \/ \E c \in ConnectionIds : TransportCloses(c)
    \/ \E c \in ConnectionIds : RemoveConnection(c)
    \/ \E c \in ConnectionIds : get_version(c)
    \/ \E c \in ConnectionIds : ping(c)
    \/ \E c \in ConnectionIds, b \in BridgeIds : get_credentials(c, b)
    \/ \E c \in ConnectionIds : memory_search(c)
    \/ \E c \in ConnectionIds : memory_stats(c)
    \/ \E c \in ConnectionIds, s \in SessionIds : chat(c, s)
    \/ \E c \in ConnectionIds, s \in SessionIds : new_session(c, s)
    \/ \E c \in ConnectionIds, s \in SessionIds : session_status(c, s)
    \/ \E c \in ConnectionIds, s \in SessionIds, model \in ModelNames :
          set_model(c, s, model)
    \/ \E c \in ConnectionIds, s \in SessionIds : compact_session(c, s)
    \/ \E c \in ConnectionIds, s \in SessionIds : clear_session(c, s)
    \/ check_bridge_health
    \/ BridgeAdvance

SpecBridgeHealth == BridgeHealthInit /\ [][BridgeHealthNext]_vars

\* The task serve() spawns for a connection runs on: once handle_connection
\* has returned, its remove_connection is not put off for ever.
SpecBridgeHealthFair ==
    SpecBridgeHealth /\ \A c \in ConnectionIds : WF_vars(RemoveConnection(c))

(***************************************************************************)
(*                   PROPERTIES OF CONNECTION HEALTH                       *)
(***************************************************************************)

\* The health the health rule gives a connection that has been silent for
\* `elapsed` seconds.
RuleHealth(elapsed) ==
    IF elapsed > health_config.unhealthy_threshold THEN "Unhealthy"
    ELSE IF elapsed > health_config.degraded_threshold THEN "Degraded"
    ELSE "Healthy"

\* How long connection id has been silent.
Silent(id) == clock - active_bridges[id].last_active

\* C8: a health scan sets the health of every connection by the rule
\* (Unhealthy beyond unhealthy_threshold, else Degraded beyond
\* degraded_threshold, else Healthy), adds one to consecutive_failures when it
\* leaves the connection non-Healthy and sets it to 0 when it finds it
\* Healthy.
C8_ScanSetsHealthAndCounts ==
    [][check_bridge_health =>
          \A id \in DOMAIN active_bridges :
              /\ id \in DOMAIN active_bridges'
              /\ active_bridges'[id].health = RuleHealth(Silent(id))
              /\ active_bridges'[id].consecutive_failures =
                    IF RuleHealth(Silent(id)) = "Healthy" THEN 0
                    ELSE active_bridges[id].consecutive_failures + 1]_vars

\* C8 witness: two scans in a row of a silent connection have left it
\* Unhealthy with consecutive_failures = 2.
C8_Witness ==
    \E id \in DOMAIN active_bridges :
        /\ active_bridges[id].health = "Unhealthy"
        /\ active_bridges[id].consecutive_failures = 2
        /\ Silent(id) > health_config.unhealthy_threshold

\* C9 (as claimed): in every state, a connection is Healthy if and only if
\* it has been silent for at most degraded_threshold.
C9_HealthyIffRecent ==
    \A id \in DOMAIN active_bridges :
        active_bridges[id].health = "Healthy"
            <=> Silent(id) <= health_config.degraded_threshold

\* The connection has been silent for no longer than either threshold.
WithinThresholds(id) ==
    /\ Silent(id) <= health_config.degraded_threshold
    /\ Silent(id) <= health_config.unhealthy_threshold

\* C9 (amended): a connection that has been silent for no longer than either
\* threshold is Healthy in every state; the converse holds in the state a
\* health scan leaves, where a connection is Healthy if and only if it has
\* been silent for no longer than either threshold.
C9_HealthyIffRecentAfterScan ==
    [][/\ \A id \in DOMAIN active_bridges' :
             WithinThresholds(id)' => active_bridges'[id].health = "Healthy"
       /\ check_bridge_health =>
             \A id \in DOMAIN active_bridges' :
                 active_bridges'[id].health = "Healthy" => WithinThresholds(id)'
      ]_vars

\* C9 witness: a scan has found a connection silent beyond
\* degraded_threshold and left it Degraded.
C9_Witness ==
    \E id \in DOMAIN active_bridges :
        /\ active_bridges[id].health = "Degraded"
        /\ Silent(id) > health_config.degraded_threshold
        /\ health_config.degraded_threshold < health_config.unhealthy_threshold

\* C10: every RPC dispatched on a connection sets that connection's
\* last_active to the current time, its health to Healthy and its
\* consecutive_failures to 0, and leaves the record of every other
\* connection as it was.
C10_RpcMarksConnectionActive ==
    [][\A c \in ConnectionIds :
          RpcDispatched(c) =>
              /\ c \in DOMAIN active_bridges'
              /\ active_bridges'[c].last_active = clock
              /\ active_bridges'[c].health = "Healthy"
              /\ active_bridges'[c].consecutive_failures = 0
              /\ DOMAIN active_bridges' = DOMAIN active_bridges
              /\ \A o \in DOMAIN active_bridges \ {c} :
                    active_bridges'[o] = active_bridges[o]]_vars

\* C10 witness: a connection has served an RPC after it was accepted and is
\* Healthy with no failures, last seen now, while another connection is
\* still Unhealthy with its failures counted.
C10_Witness ==
    \E c, o \in DOMAIN active_bridges :
        /\ c # o
        /\ active_bridges[c].last_active = clock
        /\ active_bridges[c].last_active > active_bridges[c].connected_at
        /\ active_bridges[c].health = "Healthy"
        /\ active_bridges[c].consecutive_failures = 0
        /\ active_bridges[o].health = "Unhealthy"
        /\ active_bridges[o].consecutive_failures >= 1

C12_RegisteredWhileConnected ==
    /\ [](\A c \in ConnectionIds :
            /\ conn[c] = "open" => c \in DOMAIN active_bridges
            /\ conn[c] \in {"none", "rejected", "removed"}
                  => c \notin DOMAIN active_bridges)
    /\ \A c \in ConnectionIds :
          conn[c] = "finished" ~> [](c \notin DOMAIN active_bridges)

\* C12 witness: a connection has closed and is gone from the registry while
\* another, accepted a second or more ago, has just served a request and
\* been scanned.
C12_Witness ==
    \E c, o \in ConnectionIds :
        /\ conn[c] = "removed"
        /\ c \notin DOMAIN active_bridges
        /\ conn[o] = "open"
        /\ o \in DOMAIN active_bridges
        /\ active_bridges[o].connected_at < clock
        /\ active_bridges[o].last_active = clock
        /\ scanned

(***************************************************************************)
(* The handshake of serve(): peers of every kind connect, on a build that  *)
(* knows the uid of its peers (unix) and on one that does not (windows);   *)
(* the connections that are let in are served and closed.                  *)
(***************************************************************************)
BridgeHandshakeInit ==
    /\ clock = 0
    /\ CronIdle
    /\ ActorIdle
    /\ VaultIdle
    /\ ClientIdle
    /\ FilterIdle
    /\ RestIdle
    /\ health_config = DefaultHealthCheckConfig
    /\ agent_support = FALSE
    /\ conn = [c \in ConnectionIds |-> "none"]
    /\ peer \in [ConnectionIds -> PeerIdentities]
    /\ active_bridges = EmptyMap
    /\ scanned = FALSE
    /\ credentials = EmptyMap
    /\ disk = RegisteredDisk
    /\ rpc = [c \in ConnectionIds |-> <<>>]
    /\ sessionsLock = <<>>
    /\ sessions = EmptyMap
    /\ chatCount = 0
    /\ contended = {}
    /\ failed = {}

BridgeHandshakeNext ==
    \/ \E c \in ConnectionIds : AcceptConnection(c)
    \/ \E c \in ConnectionIds : RejectConnection(c)
    \/ \E c \in ConnectionIds : TransportCloses(c)
    \/ \E c \in ConnectionIds : RemoveConnection(c)
    \/ \E c \in ConnectionIds : get_version(c)
    \/ \E c \in ConnectionIds : ping(c)
    \/ \E c \in ConnectionIds, b \in BridgeIds : get_credentials(c, b)

SpecBridgeHandshake == BridgeHandshakeInit /\ [][BridgeHandshakeNext]_vars

\* C13: a connection whose peer is not known to run as the user of the
\* server (another uid, no uid, or an identity that cannot be read) is never
\* registered and never served: it stays unaccepted or is dropped.
C13_OnlySameUserAdmitted ==
    \A c \in ConnectionIds :
        peer[c] # "same_uid" =>
            /\ conn[c] \in {"none", "rejected"}
            /\ c \notin DOMAIN active_bridges
            /\ rpc[c] = <<>>

(***************************************************************************)
(*                         CREDENTIAL VAULT                                *)
(*                                                                         *)
(* BridgeManager::register_bridge and get_credentials_for on one manager,  *)
(* over credential files that the user, other programs or a failing disk   *)
(* may change between the calls.                                           *)
(***************************************************************************)

\* The id made of n times the character ch.
Repeat(ch, n) == [i \in 1..n |-> ch]

\* The ids callers pass: two valid ones (the second of the greatest length
\* allowed) and four invalid ones: empty, one character too long, with a
\* character outside the allowed set, with a character outside ASCII.
VaultIds ==
    {TelegramId, Repeat("x", MaxBridgeIdLen),
     <<>>, Repeat("x", MaxBridgeIdLen + 1), <<"t", "!">>, <<"é">>}

ValidVaultIds == {b \in VaultIds : validate_bridge_id(b)}

\* The secrets callers register and the nonces rand::rng() may draw.
Secrets == {"abc", "xyz"}
Nonces == {"n1", "n2"}

\* What the vault calls leave alone.
vaultFrame ==
    <<clock, cronVars, actorVars, clientVars, filterVars, restVars, health_config,
      agent_support, conn, peer, active_bridges, scanned, rpc, sessionsLock,
      sessions, chatCount, contended, failed>>

\* The record of a register_bridge call that wrote a file.
Written(bridge_id, file, secret, ok, here) ==
    Append(IF bridge_id \in DOMAIN written THEN written[bridge_id] ELSE <<>>,
           [file |-> file, secret |-> secret, ok |-> ok, here |-> here])

\* register_bridge(bridge_id, secret).  The id is validated first; the
\* device key is read; the secret is encrypted under a fresh nonce and the
\* file written; its permissions are set; the cache is updated.  Reading the
\* key, writing the file and setting the permissions can each fail, and the
\* call returns the error at once.
register_bridge(bridge_id, secret) ==
    /\ vaultOps < MaxVaultOps
    /\ vaultOps' = vaultOps + 1
    /\ LET call == [NoCall EXCEPT !.at = vaultOps + 1, !.op = "register_bridge",
                                  !.id = bridge_id]
       IN  IF ~validate_bridge_id(bridge_id) \/ device_key = "unreadable"
           THEN /\ vaultLast' = [call EXCEPT !.status = "Err"]
                /\ UNCHANGED <<disk, credentials, written>>
           ELSE \/ \* the file cannot be written
                   /\ vaultLast' = [call EXCEPT !.status = "Err"]
                   /\ UNCHANGED <<disk, credentials, written>>
                \/ \E nonce \in Nonces, chmod \in BOOLEAN :
                      LET file == CredentialFile(device_key, bridge_id, nonce, secret)
                      IN  /\ disk' = PutKey(disk, bridge_id, file)
                          /\ written' = PutKey(written, bridge_id,
                                Written(bridge_id, file, secret, chmod, TRUE))
                          /\ IF chmod
                             THEN /\ credentials' = PutKey(credentials, bridge_id, secret)
                                  /\ vaultLast' = [call EXCEPT !.status = "Ok"]
                             ELSE \* set_permissions fails
                                  /\ credentials' = credentials
                                  /\ vaultLast' = [call EXCEPT !.status = "Err"]
    /\ UNCHANGED <<vaultFrame, device_key>>

\* A caller asks the manager for the credentials of bridge_id.
CredentialsRequested(bridge_id) ==
    /\ vaultOps < MaxVaultOps
    /\ vaultOps' = vaultOps + 1
    /\ LET r == get_credentials_for(credentials, disk, device_key, bridge_id)
       IN  /\ vaultLast' = [at |-> vaultOps + 1,
                            op |-> "get_credentials", id |-> bridge_id,
                            status |-> r.status, value |-> r.value,
                            read_cache |-> r.read_cache, read_disk |-> r.read_disk]
           /\ credentials' = r.cache
    /\ UNCHANGED <<vaultFrame, device_key, disk, written>>

\* Something other than the manager changes the credential file of a bridge:
\* it is deleted, cut short, its nonce or its ciphertext is altered, or it
\* is moved to the name of another bridge.
FileChanges(bridge_id) ==
    /\ vaultOps < MaxVaultOps
    /\ vaultOps' = vaultOps + 1
    /\ bridge_id \in DOMAIN disk
    /\ \/ disk' = RemoveKey(disk, bridge_id)
       \/ /\ disk[bridge_id].size = "whole"
          /\ disk' = [disk EXCEPT ![bridge_id].size = "short"]
       \/ \E nonce \in Nonces \ {disk[bridge_id].nonce} :
             disk' = [disk EXCEPT ![bridge_id].nonce = nonce]
       \/ /\ disk[bridge_id].ciphertext.tag = "intact"
          /\ disk' = [disk EXCEPT ![bridge_id].ciphertext.tag = "broken"]
       \/ \E other \in ValidVaultIds \ {bridge_id} :
             disk' = PutKey(RemoveKey(disk, bridge_id), other, disk[bridge_id])
    /\ UNCHANGED <<vaultFrame, device_key, credentials, vaultLast, written>>

\* The device key file becomes unreadable, or is replaced by another key.
DeviceKeyChanges ==
    /\ vaultOps < MaxVaultOps
    /\ vaultOps' = vaultOps + 1
    /\ device_key = "k1"
    /\ device_key' \in {"unreadable", "k2"}
    /\ UNCHANGED <<vaultFrame, disk, credentials, vaultLast, written>>

\* A manager just built (BridgeManager::new) on a device whose key is in
\* place; the disk is empty or holds the file of an earlier registration.
VaultInit ==
    /\ clock = 0
    /\ CronIdle
    /\ actorPhase = "stopped"
    /\ mailbox = <<>>
    /\ current = <<>>
    /\ actorAgent = NewAgentSession
    /\ replies = <<>>
    /\ streams = EmptyMap
    /\ dropped = {}
    /\ sentCount = 0
    /\ health_config = DefaultHealthCheckConfig
    /\ agent_support = FALSE
    /\ conn = [c \in ConnectionIds |-> "none"]
    /\ peer = [c \in ConnectionIds |-> "same_uid"]
    /\ active_bridges = EmptyMap
    /\ scanned = FALSE
    /\ credentials = EmptyMap
    /\ rpc = [c \in ConnectionIds |-> <<>>]
    /\ sessionsLock = <<>>
    /\ sessions = EmptyMap
    /\ chatCount = 0
    /\ contended = {}
    /\ failed = {}
    /\ ClientIdle
    /\ FilterIdle
    /\ RestIdle
    /\ device_key = "k1"
    /\ vaultLast = NoCall
    /\ vaultOps = 0
    /\ \/ /\ disk = EmptyMap
          /\ written = EmptyMap
       \/ /\ disk = RegisteredDisk
          /\ written = [id \in {TelegramId} |->
                           <<[file |-> RegisteredDisk[id], secret |-> "abc",
                              ok |-> TRUE, here |-> FALSE]>>]

VaultNext ==
    \/ \E b \in VaultIds, secret \in Secrets : register_bridge(b, secret)
    \/ \E b \in VaultIds : CredentialsRequested(b)

SpecVault == VaultInit /\ [][VaultNext]_vars

\* A manager just built over the file of an earlier registration: the file
\* and the device key change under it while callers ask for credentials.
VaultFilesInit == VaultInit /\ disk = RegisteredDisk

VaultFilesNext ==
    \/ \E b \in VaultIds : CredentialsRequested(b)
    \/ \E b \in ValidVaultIds : FileChanges(b)
    \/ DeviceKeyChanges

SpecVaultFiles == VaultFilesInit /\ [][VaultFilesNext]_vars

(***************************************************************************)
(*                  PROPERTIES OF THE CREDENTIAL VAULT                     *)
(***************************************************************************)

\* This step is the call op(b) on the vault.
Called(op, b) ==
    /\ vaultOps' = vaultOps + 1
    /\ vaultLast'.at = vaultOps'
    /\ vaultLast'.op = op
    /\ vaultLast'.id = b

\* The register_bridge calls of this manager for bridge b that succeeded.
Registrations(b) ==
    IF b \in DOMAIN written
    THEN SelectSeq(written[b], LAMBDA w : w.here /\ w.ok)
    ELSE <<>>

\* C14: on one manager, get_credentials(b) returns the secret of the most
\* recent successful register_bridge(b, .); for an id no register_bridge
\* ever wrote a file for it returns NotRegistered; and a get_credentials(b)
\* that repeats one that succeeded returns the same bytes without reading
\* the disk.
C14_ReturnsMostRecentRegistration ==
    [][\A b \in ValidVaultIds :
          Called("get_credentials", b) =>
              /\ Registrations(b) # <<>> =>
                    /\ vaultLast'.status = "Ok"
                    /\ vaultLast'.value =
                          <<Registrations(b)[Len(Registrations(b))].secret>>
              /\ b \notin DOMAIN written => vaultLast'.status = "NotRegistered"
              /\ (/\ vaultLast.op = "get_credentials"
                  /\ vaultLast.id = b
                  /\ vaultLast.status = "Ok")
                    => /\ vaultLast'.status = "Ok"
                       /\ vaultLast'.value = vaultLast.value
                       /\ ~vaultLast'.read_disk]_vars

\* C14 witness: bridge "telegram", registered by an earlier run with one
\* secret and by this manager with another, was asked for and the second
\* secret came from the cache.
C14_Witness ==
    /\ vaultLast.op = "get_credentials"
    /\ vaultLast.id = TelegramId
    /\ vaultLast.status = "Ok"
    /\ vaultLast.value = <<"xyz">>
    /\ ~vaultLast.read_disk
    /\ TelegramId \in DOMAIN written
    /\ Len(written[TelegramId]) = 2
    /\ written[TelegramId][1].secret = "abc"

\* The file of bridge b is on disk as some register_bridge(b, .) wrote it.
Unaltered(b) ==
    /\ b \in DOMAIN disk
    /\ b \in DOMAIN written
    /\ \E i \in 1..Len(written[b]) : written[b][i].file = disk[b]

\* What the claim asks of a load from disk.
Loadable(b) ==
    /\ b \in DOMAIN disk
    /\ disk[b].size = "whole"
    /\ device_key # "unreadable"
    /\ Unaltered(b)

\* C15: a get_credentials that has to load from disk returns the plaintext
\* only if the file exists, holds a nonce, the device key is readable and
\* the file is as register_bridge wrote it under this id; in every other
\* case it returns NotRegistered without a value and caches nothing.
C15_LoadsOnlyUnalteredFiles ==
    [][\A b \in ValidVaultIds :
          (Called("get_credentials", b) /\ b \notin DOMAIN credentials) =>
              /\ vaultLast'.status = "Ok" =>
                    /\ Loadable(b)
                    /\ vaultLast'.value = <<disk[b].ciphertext.plaintext>>
              /\ ~Loadable(b) =>
                    /\ vaultLast'.status = "NotRegistered"
                    /\ vaultLast'.value = <<>>
                    /\ credentials' = credentials]_vars

\* C15 witness: the file of "telegram" is on disk, whole, with its nonce or
\* ciphertext altered, and the load has failed with NotRegistered.
C15_Witness ==
    /\ vaultLast.op = "get_credentials"
    /\ vaultLast.id = TelegramId
    /\ vaultLast.status = "NotRegistered"
    /\ vaultLast.read_disk
    /\ TelegramId \in DOMAIN disk
    /\ disk[TelegramId].size = "whole"
    /\ device_key = "k1"
    /\ ~Unaltered(TelegramId)
    /\ TelegramId \notin DOMAIN credentials

\* The ids the claim calls invalid: empty, longer than 64 characters, or
\* with a character outside [A-Za-z0-9_-].
ClaimedInvalid(b) ==
    \/ Len(b) = 0
    \/ Len(b) > 64
    \/ \E i \in 1..Len(b) : b[i] \notin AsciiAlphanumeric \cup {"-", "_"}

\* C16: for an invalid id, register_bridge returns an error and leaves disk
\* and cache as they were, and get_credentials returns AuthFailed and reads
\* neither the cache nor the disk.
C16_InvalidIdRejectedFirst ==
    [][\A b \in VaultIds :
          ClaimedInvalid(b) =>
              /\ Called("register_bridge", b) =>
                    /\ vaultLast'.status = "Err"
                    /\ disk' = disk
                    /\ credentials' = credentials
              /\ Called("get_credentials", b) =>
                    /\ vaultLast'.status = "AuthFailed"
                    /\ ~vaultLast'.read_cache
                    /\ ~vaultLast'.read_disk
                    /\ disk' = disk
                    /\ credentials' = credentials]_vars

\* C16 witness: after a registration of "telegram", the credentials of an id
\* one character too long were asked for and refused.
C16_Witness ==
    /\ vaultLast.op = "get_credentials"
    /\ Len(vaultLast.id) = 65
    /\ vaultLast.status = "AuthFailed"
    /\ TelegramId \in DOMAIN credentials

(***************************************************************************)
(*                          BRIDGE CLIENTS                                 *)
(*                                                                         *)
(* The programs that connect to the bridge socket: localgpt-bridge-cli,    *)
(* the Telegram bridge and the test client.  One connection is followed    *)
(* from connect() to the end of the client; the server answers every RPC   *)
(* and answers get_version with its protocol version string.               *)
(***************************************************************************)

\* Version strings a server may answer with, character by character: the
\* BRIDGE_PROTOCOL_VERSION of this server ("1.1"), and those of others.
VersionStrings ==
    {<<"1", ".", "1">>, <<"1">>, <<"1", ".", "x">>, <<"0", "1", ".", "0">>,
     <<"+", "1", ".", "0">>, <<"2", ".", "0">>, <<"0", ".", "9">>,
     <<"1", "1", ".", "0">>, <<>>, <<".", "1">>, <<"v", "1", ".", "0">>,
     <<"-", "1", ".", "0">>,
     <<"4", "2", "9", "4", "9", "6", "7", "2", "9", "7", ".", "0">>}

DigitChars == <<"0", "1", "2", "3", "4", "5", "6", "7", "8", "9">>

DigitValue(ch) == (CHOOSE i \in 1..10 : DigitChars[i] = ch) - 1

\* u32::MAX, digit by digit.
U32MaxDigits == <<"4", "2", "9", "4", "9", "6", "7", "2", "9", "5">>

\* v.split('.').next(): the characters before the first '.'.
SplitFirst(v) ==
    LET dots == {i \in 1..Len(v) : v[i] = "."}
    IN  IF dots = {} THEN v ELSE SubSeq(v, 1, MinOf(dots) - 1)

\* A digit string without its leading zeros.
RECURSIVE StripZeros(_)
StripZeros(ds) ==
    IF Len(ds) > 1 /\ ds[1] = "0" THEN StripZeros(Tail(ds)) ELSE ds

\* Of two digit strings of one length, a denotes the greater number.
RECURSIVE DigitsGreater(_, _)
DigitsGreater(a, b) ==
    IF a = <<>> THEN FALSE
    ELSE IF DigitValue(a[1]) # DigitValue(b[1])
         THEN DigitValue(a[1]) > DigitValue(b[1])
         ELSE DigitsGreater(Tail(a), Tail(b))

\* A parse that reads the first digit only.
parse_u32_first_digit(str) ==
    IF str # <<>> /\ str[1] \in {DigitChars[i] : i \in 1..10}
    THEN <<SubSeq(str, 1, 1)>>
    ELSE <<>>

\* str::parse::<u32>: an optional '+', then one or more decimal digits that
\* denote a number up to u32::MAX.  The number (an Option) is given by its
\* digits without leading zeros.
parse_u32(str) ==
    LET digits == IF str # <<>> /\ str[1] = "+" THEN Tail(str) ELSE str
        number == StripZeros(digits)
    IN  IF digits = <<>> THEN <<>>
        ELSE IF \E i \in 1..Len(digits) :
                    digits[i] \notin {DigitChars[d] : d \in 1..10}
        THEN <<>>
        ELSE IF \/ Len(number) > Len(U32MaxDigits)
                \/ /\ Len(number) = Len(U32MaxDigits)
                   /\ DigitsGreater(number, U32MaxDigits)
        THEN <<>>
        ELSE <<number>>

\* The RPCs the interactive loop of the CLI sends: chat for a message, the
\* others for the /commands.
CliMethods ==
    {"chat", "new_session", "session_status", "set_model", "compact_session",
     "clear_session", "memory_search", "memory_stats", "ping"}

clientFrame ==
    <<clock, cronVars, bridgeVars, actorVars, vaultVars, filterVars, restVars>>

\* std::process::exit(code), or main returning.
Exits(code) ==
    /\ clientPhase' = "exited"
    /\ exitCode' = <<code>>

\* The client requests the RPC `method` on its connection.
Requests(method) ==
    /\ Len(calls) < MaxCalls
    /\ calls' = Append(calls, method)

\* CLI main, step 2: client.get_version() is sent.
cli_get_version ==
    /\ clientKind = "cli"
    /\ clientPhase = "connected"
    /\ Requests("get_version")
    /\ clientPhase' = "awaiting_version"
    /\ UNCHANGED <<clientFrame, clientKind, serverVersion, exitCode>>

\* CLI main, step 2: the answer to get_version.  The client goes on if the
\* major version parses to 1 and exits with code 1 otherwise, as it does if
\* the RPC fails.
cli_version_answered ==
    /\ clientKind = "cli"
    /\ clientPhase = "awaiting_version"
    /\ \/ IF parse_u32(SplitFirst(serverVersion)) = <<(<<"1">>)>>
          THEN clientPhase' = "version_ok" /\ exitCode' = exitCode
          ELSE Exits(1)
       \/ Exits(1)
    /\ UNCHANGED <<clientFrame, clientKind, serverVersion, calls>>

\* CLI main, step 4: new_session; the client exits with code 1 if it fails.
cli_new_session ==
    /\ clientKind = "cli"
    /\ clientPhase = "version_ok"
    /\ Requests("new_session")
    /\ \/ clientPhase' = "session" /\ exitCode' = exitCode
       \/ Exits(1)
    /\ UNCHANGED <<clientFrame, clientKind, serverVersion>>

\* CLI main, step 5: set_model if --model was given, then the loop starts.
cli_set_model ==
    /\ clientKind = "cli"
    /\ clientPhase = "session"
    /\ \/ Requests("set_model")
       \/ calls' = calls
    /\ clientPhase' = "interactive"
    /\ UNCHANGED <<clientFrame, clientKind, serverVersion, exitCode>>

\* run_interactive_loop: a line of input becomes an RPC, or ends the loop.
run_interactive_loop ==
    /\ clientKind = "cli"
    /\ clientPhase = "interactive"
    /\ \/ /\ \E method \in CliMethods : Requests(method)
          /\ UNCHANGED <<clientPhase, exitCode>>
       \/ /\ Exits(0)
          /\ calls' = calls
    /\ UNCHANGED <<clientFrame, clientKind, serverVersion>>

\* The Telegram bridge: main connects and fetches its token; without it the
\* process exits with code 1, with it the bot runs.
telegram_main ==
    /\ clientKind = "telegram"
    /\ clientPhase = "connected"
    /\ Requests("get_credentials")
    /\ \/ clientPhase' = "running" /\ exitCode' = exitCode
       \/ Exits(1)
    /\ UNCHANGED <<clientFrame, clientKind, serverVersion>>

\* The test client: main connects, requests the credentials and exits.
test_client_main ==
    /\ clientKind = "test_client"
    /\ clientPhase = "connected"
    /\ Requests("get_credentials")
    /\ \/ Exits(0)
       \/ Exits(1)
    /\ UNCHANGED <<clientFrame, clientKind, serverVersion>>

\* A client of one of the three kinds has connected to a server.
ClientInit ==
    /\ clock = 0
    /\ CronIdle
    /\ BridgeIdle
    /\ actorPhase = "stopped"
    /\ mailbox = <<>>
    /\ current = <<>>
    /\ actorAgent = NewAgentSession
    /\ replies = <<>>
    /\ streams = EmptyMap
    /\ dropped = {}
    /\ sentCount = 0
    /\ device_key = "k1"
    /\ vaultLast = NoCall
    /\ written = EmptyMap
    /\ vaultOps = 0
    /\ FilterIdle
    /\ RestIdle
    /\ clientKind \in {"cli", "telegram", "test_client"}
    /\ serverVersion \in VersionStrings
    /\ clientPhase = "connected"
    /\ exitCode = <<>>
    /\ calls = <<>>

ClientNext ==
    \/ cli_get_version
    \/ cli_version_answered
    \/ cli_new_session
    \/ cli_set_model
    \/ run_interactive_loop
    \/ telegram_main
    \/ test_client_main

SpecBridgeClient == ClientInit /\ [][ClientNext]_vars

\* The part of v before its first '.' reads as the number one: an optional
\* '+', zeros, then the digit 1.
MajorIsOne(v) ==
    \E k \in 1..Len(v) :
        /\ v[k] = "1"
        /\ k = Len(v) \/ v[k + 1] = "."
        /\ \A j \in 1..(k - 1) : v[j] = "0" \/ (j = 1 /\ v[j] = "+")

\* C17: the CLI client, once get_version has been answered with a string
\* whose major part is not 1 or cannot be parsed, has exited with code 1 and
\* get_version is the only RPC it requested.
C17_VersionMismatchExits ==
    (/\ clientKind = "cli"
     /\ clientPhase \notin {"connected", "awaiting_version"}
     /\ ~MajorIsOne(serverVersion))
        => /\ clientPhase = "exited"
           /\ exitCode = <<1>>
           /\ calls = <<"get_version">>

\* C17 witness: a server of protocol "2.0" has answered and the CLI client
\* has exited with code 1.
C17_Witness ==
    /\ clientKind = "cli"
    /\ serverVersion = <<"2", ".", "0">>
    /\ clientPhase = "exited"
    /\ exitCode = <<1>>
    /\ calls = <<"get_version">>

\* C18: the first RPC on every connection is get_version, and no other RPC
\* is requested before get_version has been answered.
C18_GetVersionFirst ==
    /\ calls # <<>> => calls[1] = "get_version"
    /\ Len(calls) > 1 => clientPhase # "awaiting_version"

(***************************************************************************)
(*                        TOOL INPUT FILTER                                *)
(*                                                                         *)
(* CompiledToolFilter::check and merge_hardcoded.  Strings are sequences   *)
(* of characters; a regex is one of two kinds, a literal to be found       *)
(* anywhere in the value or a literal anchored at its start ("^..."), and  *)
(* stands for its own pattern string.                                      *)
(***************************************************************************)

\* char::to_lowercase on the characters of the model.
LowerChar(ch) == IF ch = "A" THEN "a" ELSE IF ch = "B" THEN "b" ELSE ch

\* str::to_lowercase
to_lowercase(str) == [i \in 1..Len(str) |-> LowerChar(str[i])]

\* str::contains
contains(haystack, needle) ==
    \E i \in 0..(Len(haystack) - Len(needle)) :
        SubSeq(haystack, i + 1, i + Len(needle)) = needle

\* Regex::is_match
is_match(re, value) ==
    IF re.anchored
    THEN /\ Len(re.literal) <= Len(value)
         /\ SubSeq(value, 1, Len(re.literal)) = re.literal
    ELSE contains(value, re.literal)

\* Ok(()) and the three refusals of check.
Allowed == [ok |-> TRUE, stage |-> "none", rule |-> <<>>]
Blocked(stage, rule) == [ok |-> FALSE, stage |-> stage, rule |-> rule]

\* A check that looks at the allow patterns before the deny rules.
check_allow_first(filter, value) ==
    LET lower == to_lowercase(value)
        subs == {i \in 1..Len(filter.deny_substrings) :
                    contains(lower, to_lowercase(filter.deny_substrings[i]))}
        pats == {i \in 1..Len(filter.deny_patterns) :
                    is_match(filter.deny_patterns[i], value)}
    IN  IF /\ filter.allow_patterns # <<>>
           /\ ~\E i \in 1..Len(filter.allow_patterns) :
                  is_match(filter.allow_patterns[i], value)
        THEN Blocked("allow_patterns", <<>>)
        ELSE IF subs # {}
        THEN Blocked("deny_substring", <<filter.deny_substrings[MinOf(subs)]>>)
        ELSE IF pats # {}
        THEN Blocked("deny_pattern", <<filter.deny_patterns[MinOf(pats)]>>)
        ELSE Allowed

\* CompiledToolFilter::check: the first deny substring found in the
\* lowercased value blocks it, else the first deny pattern that matches,
\* else the allow patterns if there are any and none matches.
check(filter, value) ==
    LET lower == to_lowercase(value)
        subs == {i \in 1..Len(filter.deny_substrings) :
                    contains(lower, to_lowercase(filter.deny_substrings[i]))}
        pats == {i \in 1..Len(filter.deny_patterns) :
                    is_match(filter.deny_patterns[i], value)}
    IN  IF subs # {}
        THEN Blocked("deny_substring", <<filter.deny_substrings[MinOf(subs)]>>)
        ELSE IF pats # {}
        THEN Blocked("deny_pattern", <<filter.deny_patterns[MinOf(pats)]>>)
        ELSE IF /\ filter.allow_patterns # <<>>
                /\ ~\E i \in 1..Len(filter.allow_patterns) :
                       is_match(filter.allow_patterns[i], value)
        THEN Blocked("allow_patterns", <<>>)
        ELSE Allowed

\* The elements of a sequence.
Range(seq) == {seq[i] : i \in 1..Len(seq)}

\* A merge that puts the defaults in the place of the user's deny rules.
merge_hardcoded_replacing(filter, deny_substrings, deny_patterns) ==
    [filter EXCEPT !.deny_substrings = deny_substrings,
                   !.deny_patterns = deny_patterns]

\* CompiledToolFilter::merge_hardcoded: each default substring whose
\* lowercase form is not that of a substring the filter had is appended, and
\* each default pattern whose string is not that of a pattern it had.
merge_hardcoded(filter, deny_substrings, deny_patterns) ==
    LET existing_subs == {to_lowercase(sub) : sub \in Range(filter.deny_substrings)}
        existing_patterns == Range(filter.deny_patterns)
    IN  [filter EXCEPT
            !.deny_substrings =
                @ \o SelectSeq(deny_substrings,
                               LAMBDA sub : to_lowercase(sub) \notin existing_subs),
            !.deny_patterns =
                @ \o SelectSeq(deny_patterns,
                               LAMBDA pat : pat \notin existing_patterns)]

\* The compiled-in defaults of a tool (as BASH_DENY_SUBSTRINGS and
\* BASH_DENY_PATTERNS are those of bash): lists without duplicates.
HardcodedDenySubstrings == <<(<<"a", "b">>), (<<"b", "b">>)>>
HardcodedDenyPatterns == <<[anchored |-> FALSE, literal |-> <<"b", "a">>]>>

\* The sequences of at most n elements of S.
SeqsUpTo(S, n) == UNION {[1..k -> S] : k \in 0..n}

\* The filters a configuration may give a tool, and the values a tool call
\* may carry.
ToolFilters ==
    [deny_substrings : SeqsUpTo({<<"a">>, <<"A", "b">>, <<"a", "b">>}, 2),
     deny_patterns : SeqsUpTo({[anchored |-> TRUE, literal |-> <<"a">>],
                               [anchored |-> FALSE, literal |-> <<"b", "a">>]}, 2),
     allow_patterns : SeqsUpTo({[anchored |-> TRUE, literal |-> <<"a">>],
                                [anchored |-> FALSE, literal |-> <<"b">>]}, 1)]

ToolValues == SeqsUpTo({"a", "A", "b"}, 3)

filterFrame ==
    <<clock, cronVars, bridgeVars, actorVars, vaultVars, clientVars, restVars>>

\* A tool call: its filtered field is checked.
Check ==
    /\ toolVerdict = <<>>
    /\ toolVerdict' = <<check(toolFilter, toolValue)>>
    /\ UNCHANGED <<filterFrame, toolFilter, toolValue, toolMerges>>

\* Startup: the compiled-in defaults are merged into the filter.
MergeHardcoded ==
    /\ toolMerges < MaxMerges
    /\ toolMerges' = toolMerges + 1
    /\ toolFilter' = merge_hardcoded(toolFilter, HardcodedDenySubstrings,
                                     HardcodedDenyPatterns)
    /\ toolVerdict' = <<>>
    /\ UNCHANGED <<filterFrame, toolValue>>

ToolFilterInit ==
    /\ clock = 0
    /\ CronIdle
    /\ BridgeIdle
    /\ actorPhase = "stopped"
    /\ mailbox = <<>>
    /\ current = <<>>
    /\ actorAgent = NewAgentSession
    /\ replies = <<>>
    /\ streams = EmptyMap
    /\ dropped = {}
    /\ sentCount = 0
    /\ device_key = "k1"
    /\ vaultLast = NoCall
    /\ written = EmptyMap
    /\ vaultOps = 0
    /\ ClientIdle
    /\ RestIdle
    /\ toolFilter \in ToolFilters
    /\ toolValue \in ToolValues
    /\ toolVerdict = <<>>
    /\ toolMerges = 0

ToolFilterNext == Check \/ MergeHardcoded

SpecToolFilter == ToolFilterInit /\ [][ToolFilterNext]_vars

(***************************************************************************)
(*                  PROPERTIES OF THE TOOL INPUT FILTER                    *)
(***************************************************************************)

\* The value holds the substring, letter case left aside.
ContainsIgnoringCase(value, sub) ==
    \E i \in 0..(Len(value) - Len(sub)) :
        \A k \in 1..Len(sub) : LowerChar(value[i + k]) = LowerChar(sub[k])

\* The deny substrings, in list order, that the value holds, and the deny
\* patterns that match it.
SubstringsHit(filter, value) ==
    SelectSeq(filter.deny_substrings, LAMBDA sub : ContainsIgnoringCase(value, sub))
PatternsHit(filter, value) ==
    SelectSeq(filter.deny_patterns, LAMBDA re : is_match(re, value))

\* There are allow patterns and the value matches none.
NotAllowed(filter, value) ==
    /\ Len(filter.allow_patterns) > 0
    /\ \A re \in Range(filter.allow_patterns) : ~is_match(re, value)

HardcodedAlone ==
    [deny_substrings |-> HardcodedDenySubstrings,
     deny_patterns |-> HardcodedDenyPatterns, allow_patterns |-> <<>>]

\* seq begins with the elements of prefix, in order.
StartsWith(seq, prefix) ==
    Len(prefix) <= Len(seq) /\ SubSeq(seq, 1, Len(prefix)) = prefix

\* What every merge of the defaults into a filter does: the user's rules
\* stay, a value refused before or by the defaults alone is refused after,
\* and a second merge changes nothing.
MergeKeepsAndRefuses(before, after) ==
    /\ StartsWith(after.deny_substrings, before.deny_substrings)
    /\ StartsWith(after.deny_patterns, before.deny_patterns)
    /\ after.allow_patterns = before.allow_patterns
    /\ Range(HardcodedDenyPatterns) \subseteq Range(after.deny_patterns)
    /\ Len(after.deny_patterns) =
          Len(before.deny_patterns)
          + Cardinality(Range(HardcodedDenyPatterns) \ Range(before.deny_patterns))
    /\ (~check(before, toolValue).ok \/ ~check(HardcodedAlone, toolValue).ok)
          => ~check(after, toolValue).ok
    /\ merge_hardcoded(after, HardcodedDenySubstrings, HardcodedDenyPatterns) = after

\* C20 (as claimed): a merge keeps every user rule and every default rule,
\* leaves out only the defaults that are exact duplicates of a user rule,
\* refuses what either side refuses and changes nothing the second time.
C20_MergeIsExactUnion ==
    [][toolMerges' = toolMerges + 1 =>
          /\ MergeKeepsAndRefuses(toolFilter, toolFilter')
          /\ Range(HardcodedDenySubstrings) \subseteq Range(toolFilter'.deny_substrings)
          /\ Len(toolFilter'.deny_substrings) =
                Len(toolFilter.deny_substrings)
                + Cardinality(Range(HardcodedDenySubstrings)
                                \ Range(toolFilter.deny_substrings))]_vars

\* C20 (amended): as claimed, except that a default deny substring is left
\* out when the user list holds it in any letter case, so every default
\* substring is in the merged list up to letter case.
C20_MergeIsUnionUpToCase ==
    [][toolMerges' = toolMerges + 1 =>
          LET lowered(seq) == {to_lowercase(sub) : sub \in Range(seq)}
          IN  /\ MergeKeepsAndRefuses(toolFilter, toolFilter')
              /\ lowered(HardcodedDenySubstrings)
                    \subseteq lowered(toolFilter'.deny_substrings)
              /\ Len(toolFilter'.deny_substrings) =
                    Len(toolFilter.deny_substrings)
                    + Cardinality(lowered(HardcodedDenySubstrings)
                                    \ lowered(toolFilter.deny_substrings))]_vars

\* C20 witness: the defaults were merged into a filter whose one deny
\* substring is "Ab": the default "ab" was left out, the default "bb" added.
C20_Witness ==
    /\ toolMerges = 1
    /\ toolFilter.deny_substrings = <<(<<"A", "b">>), (<<"b", "b">>)>>

(***************************************************************************)
(*                          SESSION ACTOR                                  *)
(*                                                                         *)
(* AgentActor::spawn_with_config: one task owns the Agent and serves the   *)
(* messages of its mailbox.  Messages are numbered in the order they enter *)
(* the mailbox.  What Agent does to its session follows the turn loop.     *)
(***************************************************************************)

\* The variants of AgentMessage.
MessageKinds ==
    {"Chat", "ChatStream", "NewSession", "ResumeSession", "Compact",
     "ClearSession", "Status", "SetModel", "SearchMemory", "Stop"}

\* The ids of the messages of a mailbox.
IdsOf(box) == {box[i].id : i \in DOMAIN box}

\* The messages of a mailbox as they are dropped, unanswered, at a place:
\* by send, in the mailbox, or in the handler.
Unanswered(box, place) ==
    {[id |-> box[i].id, kind |-> box[i].kind, at |-> place] : i \in DOMAIN box}

\* A loop that takes the newest message of the mailbox.
NextMessageNewest(box) == box[Len(box)]

\* receiver.recv(): the oldest message of the mailbox.
NextMessage(box) == Head(box)

\* The session after agent.chat(input) of message id: the User message and,
\* when the provider answered, the Assistant message.
ChatTurn(agent, id, ok) ==
    [agent EXCEPT !.messages =
        IF ok
        THEN @ \o <<[role |-> "User", req |-> id],
                    [role |-> "Assistant", req |-> id]>>
        ELSE Append(@, [role |-> "User", req |-> id])]

actorFrame ==
    <<clock, cronVars, bridgeVars, vaultVars, clientVars, filterVars, restVars>>

\* AgentRef::chat and the like: the message enters the mailbox when there
\* is room; the caller then awaits the reply.
Send(kind) ==
    /\ actorPhase # "stopped"
    /\ sentCount < MaxMsgs
    /\ Len(mailbox) < MailboxSize
    /\ mailbox' = Append(mailbox, [id |-> sentCount + 1, kind |-> kind])
    /\ sentCount' = sentCount + 1
    /\ UNCHANGED <<actorFrame, actorPhase, current, actorAgent, replies,
                   streams, dropped>>

\* The task has built its Agent and its first session: the loop starts.
ActorStarts ==
    /\ actorPhase = "init"
    /\ actorPhase' = "idle"
    /\ UNCHANGED <<actorFrame, mailbox, current, actorAgent, replies, streams,
                   dropped, sentCount>>

\* Agent::new or new_session failed: the task returns, the receiver is
\* dropped and with it the messages that wait in the mailbox.
ActorInitFails ==
    /\ actorPhase = "init"
    /\ actorPhase' = "stopped"
    /\ dropped' = dropped \cup Unanswered(mailbox, "mailbox")
    /\ mailbox' = <<>>
    /\ UNCHANGED <<actorFrame, current, actorAgent, replies, streams,
                   sentCount>>

\* The loop takes the next message and starts to handle it.
ActorReceives ==
    /\ actorPhase = "idle"
    /\ mailbox # <<>>
    /\ NextMessage(mailbox).kind # "Stop"
    /\ current' = <<NextMessage(mailbox)>>
    /\ mailbox' = Tail(mailbox)
    /\ actorPhase' = "busy"
    /\ UNCHANGED <<actorFrame, actorAgent, replies, streams, dropped,
                   sentCount>>

\* A loop that takes Stop out of the mailbox and goes on.
ActorStopsAndGoesOn ==
    /\ actorPhase = "idle"
    /\ mailbox # <<>>
    /\ NextMessage(mailbox).kind = "Stop"
    /\ mailbox' = Tail(mailbox)
    /\ UNCHANGED <<actorFrame, actorPhase, current, actorAgent, replies,
                   streams, dropped, sentCount>>

\* AgentMessage::Stop: the loop breaks; Stop has no reply, and the messages
\* behind it are dropped with the receiver.
ActorStops ==
    /\ actorPhase = "idle"
    /\ mailbox # <<>>
    /\ NextMessage(mailbox).kind = "Stop"
    /\ actorPhase' = "stopped"
    /\ dropped' = dropped \cup Unanswered(Tail(mailbox), "mailbox")
    /\ mailbox' = <<>>
    /\ UNCHANGED <<actorFrame, current, actorAgent, replies, streams,
                   sentCount>>

\* Every AgentRef is gone: recv() returns None and the loop ends.
ActorChannelCloses ==
    /\ actorPhase = "idle"
    /\ mailbox = <<>>
    /\ actorPhase' = "stopped"
    /\ UNCHANGED <<actorFrame, mailbox, current, actorAgent, replies, streams,
                   dropped, sentCount>>

\* The loop is handling a message of this kind.
Handling(kind) ==
    /\ actorPhase = "busy"
    /\ current # <<>>
    /\ current[1].kind = kind

\* The end of a match arm: the reply is sent, the loop goes back to recv().
Replies ==
    /\ replies' = Append(replies, current[1].id)
    /\ current' = <<>>
    /\ actorPhase' = "idle"
    /\ UNCHANGED <<actorFrame, mailbox, dropped, sentCount>>

\* Chat: agent.chat(input), then the result is sent as the reply.
HandleChat ==
    /\ Handling("Chat")
    /\ \E ok \in BOOLEAN : actorAgent' = ChatTurn(actorAgent, current[1].id, ok)
    /\ Replies
    /\ UNCHANGED streams

\* ChatStream: agent.chat(input); on success the reply carries the channel
\* and the response follows as one Content chunk and Done; on failure the
\* reply carries the error.
HandleChatStream ==
    /\ Handling("ChatStream")
    /\ \E ok \in BOOLEAN :
          /\ actorAgent' = ChatTurn(actorAgent, current[1].id, ok)
          /\ streams' = IF ok
                        THEN [x \in DOMAIN streams \cup {current[1].id} |->
                                IF x = current[1].id THEN <<"Content", "Done">>
                                ELSE streams[x]]
                        ELSE streams
    /\ Replies

\* NewSession: a fresh session, or an error that leaves the session.
HandleNewSession ==
    /\ Handling("NewSession")
    /\ \/ actorAgent' = [actorAgent EXCEPT !.messages = <<>>]
       \/ UNCHANGED actorAgent
    /\ Replies
    /\ UNCHANGED streams

\* ResumeSession: the stored session is loaded (none is stored here, so it
\* is empty), or an error leaves the session.
HandleResumeSession ==
    /\ Handling("ResumeSession")
    /\ \/ actorAgent' = [actorAgent EXCEPT !.messages = <<>>]
       \/ UNCHANGED actorAgent
    /\ Replies
    /\ UNCHANGED streams

\* Compact: the history is replaced by a summary, or an error leaves it.
HandleCompact ==
    /\ Handling("Compact")
    /\ \/ actorAgent' = [actorAgent EXCEPT !.messages = Compacted(@)]
       \/ UNCHANGED actorAgent
    /\ Replies
    /\ UNCHANGED streams

HandleClearSession ==
    /\ Handling("ClearSession")
    /\ actorAgent' = [actorAgent EXCEPT !.messages = <<>>]
    /\ Replies
    /\ UNCHANGED streams

HandleStatus ==
    /\ Handling("Status")
    /\ Replies
    /\ UNCHANGED <<actorAgent, streams>>

\* SetModel: the agent switches model, or refuses it.
HandleSetModel ==
    /\ Handling("SetModel")
    /\ \/ \E model \in ModelNames : actorAgent' = [actorAgent EXCEPT !.model = model]
       \/ UNCHANGED actorAgent
    /\ Replies
    /\ UNCHANGED streams

HandleSearchMemory ==
    /\ Handling("SearchMemory")
    /\ Replies
    /\ UNCHANGED <<actorAgent, streams>>

\* spawn_with_config has returned: the channel exists, the task is about to
\* build its Agent.
ActorInit ==
    /\ clock = 0
    /\ CronIdle
    /\ BridgeIdle
    /\ VaultIdle
    /\ ClientIdle
    /\ FilterIdle
    /\ RestIdle
    /\ actorPhase = "init"
    /\ mailbox = <<>>
    /\ current = <<>>
    /\ actorAgent = NewAgentSession
    /\ replies = <<>>
    /\ streams = EmptyMap
    /\ dropped = {}
    /\ sentCount = 0

ActorNext ==
    \/ \E kind \in MessageKinds : Send(kind)
    \/ ActorStarts
    \/ ActorInitFails
    \/ ActorReceives
    \/ ActorStops
    \/ ActorChannelCloses
    \/ HandleChat
    \/ HandleChatStream
    \/ HandleNewSession
    \/ HandleResumeSession
    \/ HandleCompact
    \/ HandleClearSession
    \/ HandleStatus
    \/ HandleSetModel
    \/ HandleSearchMemory

SpecActor == ActorInit /\ [][ActorNext]_vars

(***************************************************************************)
(*                   PROPERTIES OF THE SESSION ACTOR                       *)
(***************************************************************************)

\* C6: the actor handles its messages one at a time and in the order they
\* were enqueued: while it handles message n it has replied to every
\* message enqueued before n and to none enqueued after, and the replies
\* come in enqueue order.
C6_MailboxFifoOneAtATime ==
    /\ \A i, j \in DOMAIN replies : i < j => replies[i] < replies[j]
    /\ current # <<>> =>
          /\ \A n \in 1..(current[1].id - 1) :
                \E i \in DOMAIN replies : replies[i] = n
          /\ \A i \in DOMAIN replies : replies[i] < current[1].id
    /\ \A i \in DOMAIN mailbox :
          /\ \A j \in DOMAIN replies : replies[j] < mailbox[i].id
          /\ current # <<>> => current[1].id < mailbox[i].id
          /\ \A k \in DOMAIN mailbox : i < k => mailbox[i].id < mailbox[k].id

\* C6 witness: the actor handles message 2 after it has replied to
\* message 1, while message 3 waits in the mailbox.
C6_Witness ==
    /\ current # <<>>
    /\ current[1].id = 2
    /\ replies = <<1>>
    /\ mailbox # <<>>
    /\ mailbox[1].id = 3

(***************************************************************************)
(*                        TOOLS OF THE CLI                                 *)
(*                                                                         *)
(* crates/cli/src/tools.rs: bash, read_file, write_file and edit_file, and *)
(* the turn loop that executes the tool calls of an Assistant message.     *)
(* A path is the sequence of its components, "~" standing first for the    *)
(* home directory; a command is the sequence of its words; the content of  *)
(* a file is a sequence of lines.                                          *)
(***************************************************************************)

HomeDir == <<"home">>

\* shellexpand::tilde
tilde(path) ==
    IF path # <<>> /\ path[1] = "~" THEN HomeDir \o Tail(path) ELSE path

\* Path::starts_with, Path::parent and Path::file_name (an Option).
starts_with(path, base) ==
    Len(base) <= Len(path) /\ SubSeq(path, 1, Len(base)) = base
parent(path) == SubSeq(path, 1, Len(path) - 1)
file_name(path) == IF path = <<>> THEN <<>> ELSE <<path[Len(path)]>>

\* The symbolic links and the directories of the machine.
Symlinks ==
    [p \in {<<"home", "ws", "link">>} |-> <<"etc", "passwd">>]
Directories ==
    {<<>>, <<"home">>, <<"home", "ws">>, <<"home", "ssh">>, <<"etc">>}

\* The path the operating system opens for a path: links are followed.
Follow(path) == IF path \in DOMAIN Symlinks THEN Symlinks[path] ELSE path

\* A directory exists when it is one of the machine's or holds a file.
is_dir(fs, dir) ==
    \/ dir \in Directories
    \/ \E f \in DOMAIN fs : Len(dir) < Len(f) /\ starts_with(f, dir)

\* fs::canonicalize (an Option): the real path of a path that exists.
canonicalize(fs, path) ==
    LET real == Follow(path)
    IN  IF real \in DOMAIN fs \/ is_dir(fs, real) THEN <<real>> ELSE <<>>

\* resolve_real_path: the canonical path; for a new file the canonical
\* parent with the file name; failing both, the expanded path as it is.
resolve_real_path(fs, path) ==
    LET p == tilde(path)
        canonical == canonicalize(fs, p)
        canonical_parent == canonicalize(fs, parent(p))
    IN  IF canonical # <<>> THEN canonical[1]
        ELSE IF p # <<>> /\ canonical_parent # <<>>
        THEN canonical_parent[1] \o file_name(p)
        ELSE p

\* check_path_allowed(..).is_ok()
check_path_allowed(real_path, dirs) ==
    dirs = {} \/ \E dir \in dirs : starts_with(real_path, dir)

\* security::is_workspace_file_protected: the device-key file, the audit
\* log and the manifest.
ProtectedFiles ==
    {".device_key", ".security_audit.jsonl", ".localgpt_manifest.json"}
is_workspace_file_protected(name) == name \in ProtectedFiles

\* security::check_bash_command: the protected files a command names.
check_bash_command(command) ==
    {name \in ProtectedFiles : contains(command, <<name>>)}

\* localgpt_sandbox::policy::is_path_denied
is_path_denied(path, policy) == \E dir \in policy : starts_with(path, dir)

\* BASH_DENY_SUBSTRINGS and BASH_DENY_PATTERNS (\bsudo\b is the word sudo).
BASH_DENY_SUBSTRINGS ==
    <<(<<".device_key">>), (<<".security_audit.jsonl">>),
      (<<".localgpt_manifest.json">>), (<<"rm", "-rf", "/">>), (<<"mkfs">>),
      (<<"chmod", "777">>)>>
BASH_DENY_PATTERNS == <<[anchored |-> FALSE, literal |-> <<"sudo">>]>>

\* The filter of bash when the configuration gives it no rule.
DefaultBashFilter ==
    merge_hardcoded([deny_substrings |-> <<>>, deny_patterns |-> <<>>,
                     allow_patterns |-> <<>>],
                    BASH_DENY_SUBSTRINGS, BASH_DENY_PATTERNS)

\* A WriteBlocked entry of the audit log.
WriteBlocked(source) == [action |-> "WriteBlocked", source |-> source]

\* What a tool's execute returns and leaves behind.
ToolOutcome(ok, error, fs, log, procs) ==
    [ok |-> ok, error |-> error, files |-> fs, audit |-> log, spawned |-> procs]

\* BashTool::execute: a command that names a protected file is noted in
\* the audit log; the command is then spawned, in the sandbox or without,
\* and runs to its end or fails (the timeout, or the spawn itself).
BashExecute(call, fs, log, procs, ran) ==
    LET suspicious == check_bash_command(call.input)
        log1 == IF suspicious # {}
                THEN Append(log, WriteBlocked("tool:bash"))
                ELSE log
    IN  ToolOutcome(ran, IF ran THEN "none" ELSE "failed", fs, log1,
                    Append(procs, call.input))

\* ReadFileTool::execute
ReadFileExecute(call, fs, log, procs, policy) ==
    LET path == tilde(call.input)
    IN  IF policy # <<>> /\ is_path_denied(path, policy[1])
        THEN ToolOutcome(FALSE, "sandbox", fs, log, procs)
        ELSE IF Follow(path) \notin DOMAIN fs
        THEN ToolOutcome(FALSE, "io", fs, log, procs)
        ELSE ToolOutcome(TRUE, "none", fs, log, procs)

\* A write_file without the check of the protected files.
WriteFileExecuteUnprotected(call, fs, log, procs, policy) ==
    LET path == tilde(call.input)
    IN  IF policy # <<>> /\ is_path_denied(path, policy[1])
        THEN ToolOutcome(FALSE, "sandbox", fs, log, procs)
        ELSE ToolOutcome(TRUE, "none", PutKey(fs, Follow(path), call.content),
                         log, procs)

\* WriteFileTool::execute
WriteFileExecute(call, fs, log, procs, policy) ==
    LET path == tilde(call.input)
    IN  IF policy # <<>> /\ is_path_denied(path, policy[1])
        THEN ToolOutcome(FALSE, "sandbox", fs, log, procs)
        ELSE IF /\ file_name(path) # <<>>
                /\ is_workspace_file_protected(file_name(path)[1])
        THEN ToolOutcome(FALSE, "protected", fs,
                         Append(log, WriteBlocked("tool:write_file")), procs)
        ELSE ToolOutcome(TRUE, "none", PutKey(fs, Follow(path), call.content),
                         log, procs)

\* str::replacen(old, new, 1) and str::replace(old, new) on lines.
replacen(content, old, new) ==
    LET first == MinOf({i \in 1..Len(content) : content[i] = old})
    IN  [content EXCEPT ![first] = new]
replace(content, old, new) ==
    [i \in 1..Len(content) |-> IF content[i] = old THEN new ELSE content[i]]

\* EditFileTool::execute
EditFileExecute(call, fs, log, procs, policy) ==
    LET path == tilde(call.input)
        old == call.old_string
        new == call.content
    IN  IF policy # <<>> /\ is_path_denied(path, policy[1])
        THEN ToolOutcome(FALSE, "sandbox", fs, log, procs)
        ELSE IF /\ file_name(path) # <<>>
                /\ is_workspace_file_protected(file_name(path)[1])
        THEN ToolOutcome(FALSE, "protected", fs,
                         Append(log, WriteBlocked("tool:edit_file")), procs)
        ELSE IF Follow(path) \notin DOMAIN fs
        THEN ToolOutcome(FALSE, "io", fs, log, procs)
        ELSE LET content == fs[Follow(path)]
             IN  IF call.replace_all
                 THEN ToolOutcome(TRUE, "none",
                                  PutKey(fs, Follow(path),
                                         replace(content, old, new)),
                                  log, procs)
                 ELSE IF \E i \in 1..Len(content) : content[i] = old
                 THEN ToolOutcome(TRUE, "none",
                                  PutKey(fs, Follow(path),
                                         replacen(content, old, new)),
                                  log, procs)
                 ELSE ToolOutcome(FALSE, "old_string", fs, log, procs)

\* The files of the machine when the session starts.
InitialFiles ==
    [p \in {<<"home", "ws", "a">>, <<"home", "ws", ".device_key">>,
            <<"home", "ssh", ".device_key">>, <<"etc", "passwd">>}
       |-> <<"x", "x">>]

\* The tool calls a provider asks for.
ToolCall(tool, input, content, old, all) ==
    [tool |-> tool, input |-> input, content |-> content, old_string |-> old,
     replace_all |-> all]
ToolCalls ==
    {ToolCall("bash", <<"sudo", "rm", "-rf", "/">>, <<>>, "", FALSE),
     ToolCall("bash", <<"cat", ".device_key">>, <<>>, "", FALSE),
     ToolCall("read_file", <<"~", "ws", "link">>, <<>>, "", FALSE),
     ToolCall("read_file", <<"~", "ws", "new">>, <<>>, "", FALSE),
     ToolCall("write_file", <<"~", "ws", "new">>, <<"y">>, "", FALSE),
     ToolCall("write_file", <<"~", "ws", ".device_key">>, <<"y">>, "", FALSE),
     ToolCall("write_file", <<"~", "ssh", ".device_key">>, <<"y">>, "", FALSE),
     ToolCall("edit_file", <<"~", "ws", "a">>, "y", "x", FALSE),
     ToolCall("edit_file", <<"~", "ws", ".localgpt_manifest.json">>, "y", "x",
              TRUE)}

\* The messages of a session.
UserMessage ==
    [role |-> "User", tool_calls |-> <<>>, tool_call_id |-> 0, ok |-> TRUE]
AssistantMessage(ids) ==
    [role |-> "Assistant", tool_calls |-> ids, tool_call_id |-> 0, ok |-> TRUE]
ToolMessage(id, ok) ==
    [role |-> "Tool", tool_calls |-> <<>>, tool_call_id |-> id, ok |-> ok]

\* The id of the last tool call a provider asked for, and the User
\* messages of the session.
LastCallId == IF pending # <<>> THEN pending[Len(pending)].id ELSE toolLast.id
UserTurns == Cardinality({i \in DOMAIN transcript : transcript[i].role = "User"})

\* A turn loop that gives up the tool calls of a message at the first
\* call that fails.
remaining_calls_aborting(asked, ok) == IF ok THEN Tail(asked) ELSE <<>>

\* The tool calls still to execute after the first one has returned.
remaining_calls(asked, ok) == Tail(asked)

toolFrame ==
    <<clock, cronVars, bridgeVars, actorVars, vaultVars, clientVars, filterVars,
      searchVars, superVars, lateVars>>

\* The user sends a message: a turn begins.
UserSends ==
    /\ UserTurns < MaxTurns
    /\ IF transcript = <<>> THEN TRUE
       ELSE /\ transcript[Len(transcript)].role = "Assistant"
            /\ transcript[Len(transcript)].tool_calls = <<>>
    /\ transcript' = Append(transcript, UserMessage)
    /\ UNCHANGED <<toolFrame, allowed_dirs, sandbox_policy, fsys, audit,
                   spawned, pending, toolLast>>

\* The provider answers with an Assistant message that carries tool calls,
\* or none: then the turn is over.
ProviderResponds(asked) ==
    /\ transcript # <<>>
    /\ pending = <<>>
    /\ transcript[Len(transcript)].role \in {"User", "Tool"}
    /\ LastCallId + Len(asked) <= MaxToolCalls
    /\ LET numbered == [i \in 1..Len(asked) |->
                           [id |-> LastCallId + i, call |-> asked[i]]]
       IN  /\ pending' = numbered
           /\ transcript' =
                 Append(transcript,
                        AssistantMessage([i \in 1..Len(asked) |-> numbered[i].id]))
    /\ UNCHANGED <<toolFrame, allowed_dirs, sandbox_policy, fsys, audit,
                   spawned, toolLast>>

\* The loop executes the next tool call of the message and appends what it
\* returned, output or error, as a Tool message.
ExecuteTool ==
    /\ pending # <<>>
    /\ LET id == Head(pending).id
           call == Head(pending).call
       IN  \E ran \in BOOLEAN :
             /\ call.tool = "bash" \/ ran
             /\ LET out ==
                      IF call.tool = "bash"
                      THEN BashExecute(call, fsys, audit, spawned, ran)
                      ELSE IF call.tool = "read_file"
                      THEN ReadFileExecute(call, fsys, audit, spawned,
                                           sandbox_policy)
                      ELSE IF call.tool = "write_file"
                      THEN WriteFileExecute(call, fsys, audit, spawned,
                                            sandbox_policy)
                      ELSE EditFileExecute(call, fsys, audit, spawned,
                                           sandbox_policy)
                IN  /\ fsys' = out.files
                    /\ audit' = out.audit
                    /\ spawned' = out.spawned
                    /\ transcript' = Append(transcript, ToolMessage(id, out.ok))
                    /\ pending' = remaining_calls(pending, out.ok)
                    /\ toolLast' =
                          [id |-> id, tool |-> call.tool, input |-> call.input,
                           ok |-> out.ok, error |-> out.error,
                           spawned |-> out.spawned # spawned,
                           audited |-> Len(out.audit) - Len(audit),
                           wrote |-> out.files # fsys]
    /\ UNCHANGED <<toolFrame, allowed_dirs, sandbox_policy>>

ToolsInit ==
    /\ clock = 0
    /\ CronIdle
    /\ BridgeIdle
    /\ ActorIdle
    /\ VaultIdle
    /\ ClientIdle
    /\ FilterIdle
    /\ SearchIdle
    /\ supervisor = "none"
    /\ LateIdle
    /\ allowed_dirs \in {{}, {<<"home", "ws">>}}
    /\ sandbox_policy \in {<<>>, <<{<<"home", "ssh">>}>>}
    /\ fsys = InitialFiles
    /\ audit = <<>>
    /\ spawned = <<>>
    /\ transcript = <<>>
    /\ pending = <<>>
    /\ toolLast = NoToolCall

ToolsNext ==
    \/ UserSends
    \/ \E asked \in SeqsUpTo(ToolCalls, 2) : ProviderResponds(asked)
    \/ ExecuteTool

SpecTools == ToolsInit /\ [][ToolsNext]_vars

(***************************************************************************)
(*                     PROPERTIES OF THE TOOLS                             *)
(***************************************************************************)

\* The bash call executed last carried a command that the compiled-in
\* default rules refuse.
DeniedByDefaults ==
    /\ toolLast.tool = "bash"
    /\ ~check(DefaultBashFilter, toolLast.input).ok

\* The Tool message of the call executed last is the last of the session.
Reported ==
    /\ transcript # <<>>
    /\ transcript[Len(transcript)] = ToolMessage(toolLast.id, toolLast.ok)

\* C21: with the compiled-in default rules alone, a bash call whose command
\* holds a default deny substring or matches a default deny pattern is
\* refused before a process is spawned, the refusal is the Tool message of
\* the call, and exactly one WriteBlocked entry enters the audit log.
C21_DefaultsDenyBash ==
    DeniedByDefaults =>
        /\ ~toolLast.ok
        /\ ~toolLast.spawned
        /\ toolLast.audited = 1
        /\ Reported

\* C21, what the code does: the command the defaults refuse was spawned
\* and ran, and the audit log has no entry for it.
C21_DeniedCommandRan ==
    /\ DeniedByDefaults
    /\ toolLast.input = <<"sudo", "rm", "-rf", "/">>
    /\ toolLast.ok
    /\ toolLast.spawned
    /\ toolLast.audited = 0



\* The call executed last was a write_file or an edit_file of a file whose
\* name is on the protected list.
ProtectedWrite ==
    /\ toolLast.tool \in {"write_file", "edit_file"}
    /\ file_name(tilde(toolLast.input)) # <<>>
    /\ is_workspace_file_protected(file_name(tilde(toolLast.input))[1])

\* The sandbox policy denies the directory of the call executed last.
SandboxDenies ==
    /\ sandbox_policy # <<>>
    /\ is_path_denied(tilde(toolLast.input), sandbox_policy[1])

\* C22 (as claimed): write_file and edit_file refuse every call whose file
\* name is protected, whatever the directory, the sandbox policy and
\* allowed_dirs: the call fails, no file changes and one WriteBlocked entry
\* is appended to the audit log.
C22_ProtectedWriteAudited ==
    ProtectedWrite =>
        /\ ~toolLast.ok
        /\ ~toolLast.wrote
        /\ toolLast.audited = 1

\* C22 (amended): the call fails and no file changes in every case; the
\* WriteBlocked entry is appended unless the sandbox policy denies the
\* path, which is checked first and refuses without an audit entry.
C22_ProtectedWriteRefused ==
    ProtectedWrite =>
        /\ ~toolLast.ok
        /\ ~toolLast.wrote
        /\ fsys[<<"home", "ws", ".device_key">>] = InitialFiles[<<"home", "ws", ".device_key">>]
        /\ fsys[<<"home", "ssh", ".device_key">>] = InitialFiles[<<"home", "ssh", ".device_key">>]
        /\ <<"home", "ws", ".localgpt_manifest.json">> \notin DOMAIN fsys
        /\ IF SandboxDenies
           THEN toolLast.error = "sandbox" /\ toolLast.audited = 0
           ELSE /\ toolLast.error = "protected"
                /\ toolLast.audited = 1
                /\ audit[Len(audit)] = WriteBlocked("tool:" \o toolLast.tool)

\* C22 witness: with allowed_dirs set and a sandbox policy in force, an
\* edit of the manifest and then a write of the device key in the
\* workspace were refused, each with its audit entry.
C22_Witness ==
    /\ ProtectedWrite
    /\ toolLast.tool = "write_file"
    /\ toolLast.error = "protected"
    /\ allowed_dirs # {}
    /\ sandbox_policy # <<>>
    /\ audit = <<WriteBlocked("tool:edit_file"), WriteBlocked("tool:write_file")>>



\* C23: when allowed_dirs is not empty, a read_file, write_file or
\* edit_file call succeeds only if the resolved path of its argument
\* (tilde expanded, links followed, the parent resolved for a new file)
\* lies under one of the allowed directories, and a file changes only then.
C23_AllowedDirsEnforced ==
    toolLast.tool \in {"read_file", "write_file", "edit_file"} =>
        \/ ~(toolLast.ok \/ toolLast.wrote)
        \/ check_path_allowed(resolve_real_path(fsys, toolLast.input),
                              allowed_dirs)

\* C23, what the code does: with the workspace as the only allowed
\* directory, a file outside of it was read through a link of the
\* workspace.
C23_ReadOutsideAllowedDirs ==
    /\ allowed_dirs = {<<"home", "ws">>}
    /\ toolLast.tool = "read_file"
    /\ toolLast.input = <<"~", "ws", "link">>
    /\ resolve_real_path(fsys, toolLast.input) = <<"etc", "passwd">>
    /\ toolLast.ok



\* C24: in the transcript every Assistant message with k tool calls is
\* followed at once by k Tool messages, in the order of the calls and with
\* their ids, before any other message, whether the calls succeed or fail;
\* while the loop is still executing the calls of the last Assistant
\* message, the Tool messages of the calls already executed are there and
\* the others are pending; and no Tool message stands anywhere else.
C24_ToolMessagesFollowCalls ==
    \A i \in DOMAIN transcript :
        /\ transcript[i].role = "Assistant" =>
              LET ids == transcript[i].tool_calls
                  k == Len(ids)
                  answered == IF i + k <= Len(transcript)
                              THEN k ELSE Len(transcript) - i
              IN  /\ \A j \in 1..answered :
                        /\ transcript[i + j].role = "Tool"
                        /\ transcript[i + j].tool_call_id = ids[j]
                  /\ answered < k =>
                        /\ Len(pending) = k - answered
                        /\ \A j \in 1..Len(pending) :
                              pending[j].id = ids[answered + j]
        /\ transcript[i].role = "Tool" =>
              \E a \in 1..(i - 1) :
                  /\ transcript[a].role = "Assistant"
                  /\ i - a <= Len(transcript[a].tool_calls)
                  /\ \A q \in (a + 1)..(i - 1) : transcript[q].role = "Tool"

\* C24 witness: an Assistant message asked for two calls, the first was
\* refused and the second succeeded, both have their Tool message and the
\* provider has answered again.
C24_Witness ==
    /\ Len(transcript) = 5
    /\ transcript[2] = AssistantMessage(<<1, 2>>)
    /\ transcript[3] = ToolMessage(1, FALSE)
    /\ transcript[4] = ToolMessage(2, TRUE)
    /\ transcript[5].role = "Assistant"
    /\ toolLast.tool = "bash"
    /\ audit # <<>>



(***************************************************************************)
(*                            WEB SEARCH                                   *)
(*                                                                         *)
(* agent/tools/web_search.rs: SearchRouter::search in front of one         *)
(* provider, with the SearchCache.  A search that misses the cache waits   *)
(* for the provider while other searches go on.  Instants are the seconds  *)
(* of the clock.                                                           *)
(***************************************************************************)

\* str::trim: the string without its leading and trailing spaces.
trim(str) ==
    LET inked == {i \in 1..Len(str) : str[i] # " "}
    IN  IF inked = {} THEN <<>>
        ELSE SubSeq(str, MinOf(inked),
                    CHOOSE last \in inked : \A i \in inked : i <= last)

\* A cache key made of the query as it was typed.
cache_key_verbatim(provider, query) == <<provider, query>>

\* SearchCache::cache_key
cache_key(provider, query) == <<provider, trim(to_lowercase(query))>>

\* The provider of the router, what one of its queries costs (in tenths of
\* a cent), the result lists it may answer and the queries users type.
ProviderName == "brave"
SearchResults == {"r1", "r2"}
Queries == {<<"a">>, <<" ", "A", " ">>, <<"b">>}

\* The SearchResponse of a provider.
ProviderResponse(query, results) ==
    [results |-> results, query |-> query, provider |-> ProviderName,
     estimated_cost |-> 5, cached |-> FALSE]

\* A get that still serves an entry at the very end of its TTL.
CacheGetAtExpiry(entries, provider, query, now) ==
    LET key == cache_key(provider, query)
    IN  IF key \in DOMAIN entries /\ now - entries[key].inserted_at <= ttl
        THEN <<[entries[key].response EXCEPT !.cached = TRUE,
                                             !.estimated_cost = 0]>>
        ELSE <<>>

\* SearchCache::get (an Option)
CacheGet(entries, provider, query, now) ==
    LET key == cache_key(provider, query)
    IN  IF key \in DOMAIN entries /\ now - entries[key].inserted_at < ttl
        THEN <<[entries[key].response EXCEPT !.cached = TRUE,
                                             !.estimated_cost = 0]>>
        ELSE <<>>

\* SearchCache::put: the entry is inserted, then the expired ones go.
CachePut(entries, provider, query, response, now) ==
    LET inserted == PutKey(entries, cache_key(provider, query),
                           [response |-> response, inserted_at |-> now])
        kept == {k \in DOMAIN inserted : now - inserted[k].inserted_at < ttl}
    IN  [k \in kept |-> inserted[k]]

\* The searches so far, returned or not.
Searches == Len(searchLog) + Cardinality(inflight)

searchFrame ==
    <<cronVars, bridgeVars, actorVars, vaultVars, clientVars, filterVars,
      toolVars, superVars, lateVars>>

\* SearchRouter::search up to the provider: a fresh entry of the cache is
\* returned at once; otherwise the provider is asked.
SearchStarts(query) ==
    /\ Searches < MaxSearches
    /\ LET id == Searches + 1
           hit == CacheGet(searchCache, ProviderName, query, clock)
       IN  IF hit # <<>>
           THEN /\ searchLog' =
                      Append(searchLog,
                             [id |-> id, query |-> query, started |-> clock,
                              seen |-> Len(searchLog), finished |-> clock,
                              ok |-> TRUE, response |-> hit[1],
                              called |-> FALSE])
                /\ UNCHANGED inflight
           ELSE /\ inflight' =
                      inflight \cup {[id |-> id, query |-> query,
                                      started |-> clock,
                                      seen |-> Len(searchLog)]}
                /\ UNCHANGED searchLog
    /\ UNCHANGED <<clock, searchFrame, ttl, searchCache>>

\* SearchRouter::search after the provider has answered: the response is
\* put in the cache and returned.
ProviderAnswers(search, results) ==
    /\ search \in inflight
    /\ LET response == ProviderResponse(search.query, results)
       IN  /\ searchCache' = CachePut(searchCache, ProviderName, search.query, response,
                                clock)
           /\ searchLog' =
                 Append(searchLog,
                        [id |-> search.id, query |-> search.query,
                         started |-> search.started, seen |-> search.seen,
                         finished |-> clock, ok |-> TRUE,
                         response |-> response, called |-> TRUE])
    /\ inflight' = inflight \ {search}
    /\ UNCHANGED <<clock, searchFrame, ttl>>

\* The provider fails: search returns its error and the cache is as it was.
ProviderFails(search) ==
    /\ search \in inflight
    /\ searchLog' =
          Append(searchLog,
                 [id |-> search.id, query |-> search.query,
                  started |-> search.started, seen |-> search.seen,
                  finished |-> clock, ok |-> FALSE,
                  response |-> ProviderResponse(search.query, "none"),
                  called |-> TRUE])
    /\ inflight' = inflight \ {search}
    /\ UNCHANGED <<clock, searchFrame, ttl, searchCache>>

\* One second passes.  The clock is followed until the entries of second 0
\* have expired.
SearchAdvance ==
    /\ clock < ttl
    /\ clock' = clock + 1
    /\ UNCHANGED <<searchFrame, searchVars>>

SearchInit ==
    /\ clock = 0
    /\ CronIdle
    /\ BridgeIdle
    /\ ActorIdle
    /\ VaultIdle
    /\ ClientIdle
    /\ FilterIdle
    /\ ToolsIdle
    /\ supervisor = "none"
    /\ LateIdle
    /\ ttl \in 0..2
    /\ searchCache = EmptyMap
    /\ inflight = {}
    /\ searchLog = <<>>

SearchNext ==
    \/ \E query \in Queries : SearchStarts(query)
    \/ \E search \in inflight :
          \/ \E results \in SearchResults : ProviderAnswers(search, results)
          \/ ProviderFails(search)
    \/ SearchAdvance

SpecSearch == SearchInit /\ [][SearchNext]_vars

(***************************************************************************)
(*                    PROPERTIES OF THE WEB SEARCH                         *)
(***************************************************************************)

\* The searches that had returned an answer of the provider for the query
\* of search j before j started, less than the TTL before.
AnsweredBefore(j) ==
    {i \in 1..searchLog[j].seen :
        /\ searchLog[i].ok
        /\ searchLog[i].called
        /\ trim(to_lowercase(searchLog[i].query))
              = trim(to_lowercase(searchLog[j].query))
        /\ searchLog[j].started - searchLog[i].finished < ttl}

is_connected == actorPhase # "stopped"

\* What the method of AgentRef returns to its caller when send fails on a
\* closed channel, and when the reply sender is dropped without a reply.
SendFailed(kind) ==
    IF kind = "ClearSession" THEN "()" ELSE "Err(Actor channel closed)"
ReplyDropped(kind) ==
    IF kind = "ClearSession" THEN "()"
    ELSE IF kind = "Stop" THEN "Ok(())"
    ELSE "Err(Actor did not respond)"
CallerGets(message) ==
    IF message.at = "send" THEN SendFailed(message.kind)
    ELSE ReplyDropped(message.kind)

lifeFrame ==
    <<clock, cronVars, bridgeVars, vaultVars, clientVars, filterVars, toolVars,
      searchVars, lateVars>>

\* The handler panics: the task unwinds and drops the reply sender of the
\* message in hand, the receiver and the messages that wait in it.
ActorPanics ==
    /\ actorPhase = "busy"
    /\ current # <<>>
    /\ actorPhase' = "stopped"
    /\ dropped' = dropped \cup Unanswered(current, "handler")
                          \cup Unanswered(mailbox, "mailbox")
    /\ current' = <<>>
    /\ mailbox' = <<>>
    /\ UNCHANGED <<lifeFrame, supervisor, actorAgent, replies, streams,
                   sentCount>>

\* A method of AgentRef is called after the receiver was dropped: send
\* fails and gives the message back, which is dropped.
SendRefused(kind) ==
    /\ actorPhase = "stopped"
    /\ sentCount < MaxMsgs
    /\ sentCount' = sentCount + 1
    /\ dropped' = dropped \cup {[id |-> sentCount + 1, kind |-> kind,
                                 at |-> "send"]}
    /\ UNCHANGED <<lifeFrame, supervisor, actorPhase, mailbox, current,
                   actorAgent, replies, streams>>

\* The supervisor task has built the memory manager and the Agent: it logs
\* that the agent started and returns.
SupervisorStarts ==
    /\ supervisor = "init"
    /\ supervisor' = "started"
    /\ UNCHANGED <<lifeFrame, actorVars>>

\* MemoryManager or Agent::new failed: the supervisor task returns.
SupervisorInitFails ==
    /\ supervisor = "init"
    /\ supervisor' = "failed"
    /\ UNCHANGED <<lifeFrame, actorVars>>

\* spawn_with_config has returned, or spawn_supervised_with_config has:
\* there the receiver of the mailbox is a local that the function drops
\* when it returns, and the supervisor task is about to build the Agent.
ActorLifeInit ==
    /\ clock = 0
    /\ CronIdle
    /\ BridgeIdle
    /\ VaultIdle
    /\ ClientIdle
    /\ FilterIdle
    /\ ToolsIdle
    /\ SearchIdle
    /\ LateIdle
    /\ \/ supervisor = "none" /\ actorPhase = "init"
       \/ supervisor = "init" /\ actorPhase = "stopped"
    /\ mailbox = <<>>
    /\ current = <<>>
    /\ actorAgent = NewAgentSession
    /\ replies = <<>>
    /\ streams = EmptyMap
    /\ dropped = {}
    /\ sentCount = 0

ActorLifeNext ==
    \/ ActorNext
    \/ ActorPanics
    \/ \E kind \in MessageKinds : SendRefused(kind)
    \/ SupervisorStarts
    \/ SupervisorInitFails

SpecActorLife == ActorLifeInit /\ [][ActorLifeNext]_vars

(***************************************************************************)
(*                PROPERTIES OF THE END OF THE ACTOR                       *)
(***************************************************************************)

\* C26: a supervised actor whose startup succeeded is running: its AgentRef
\* is connected and no request sent through it is refused or dropped (a
\* panic is followed by a restart, and a failed startup ends the
\* supervisor).
C26_SupervisedActorServes ==
    supervisor = "started" => is_connected /\ dropped = {}

\* C26, what the code does: the supervised agent has started and a chat
\* sent through its AgentRef came back with "Actor channel closed".
C26_SupervisedRefAlwaysClosed ==
    /\ supervisor = "started"
    /\ ~is_connected
    /\ [id |-> 1, kind |-> "Chat", at |-> "send"] \in dropped

\* C27: once an unsupervised actor has ended, no request waits in the
\* mailbox or in the handler, is_connected() is false, and every request
\* sent afterwards or dropped with the mailbox has come back to its caller
\* with an error.
C27_RequestsFailAfterEnd ==
    (supervisor = "none" /\ actorPhase = "stopped") =>
        /\ mailbox = <<>>
        /\ current = <<>>
        /\ ~is_connected
        /\ \A message \in dropped :
              (message.kind # "Stop" \/ message.at = "send") =>
                  CallerGets(message) \in {"Err(Actor channel closed)",
                                           "Err(Actor did not respond)"}

\* C27, what the code does: clear_session was called after the actor had
\* stopped and returned as it does when the session was cleared.
C27_ClearSessionSilent ==
    /\ supervisor = "none"
    /\ actorPhase = "stopped"
    /\ \E message \in dropped :
          /\ message.kind = "ClearSession"
          /\ message.at = "send"
          /\ CallerGets(message) = "()"

\* C30: the step that takes Stop out of the mailbox ends the task: the
\* messages behind Stop are dropped unanswered, the session and the
\* replies are as they were, and from then on nothing is handled, replied
\* to or changed in the session.
C30_StopEndsTheLoop ==
    [][/\ (/\ actorPhase = "idle"
           /\ mailbox # <<>>
           /\ Head(mailbox).kind = "Stop"
           /\ Len(mailbox') < Len(mailbox))
          => /\ actorPhase' = "stopped"
             /\ mailbox' = <<>>
             /\ Unanswered(Tail(mailbox), "mailbox") \subseteq dropped'
             /\ actorAgent' = actorAgent
             /\ replies' = replies
             /\ current' = <<>>
       /\ actorPhase = "stopped"
          => /\ actorPhase' = "stopped"
             /\ mailbox' = <<>>
             /\ current' = <<>>
             /\ actorAgent' = actorAgent
             /\ replies' = replies
             /\ streams' = streams]_vars

\* C30 witness: the first chat was answered, Stop came second, and the
\* chat queued behind it was dropped: the session holds the first turn
\* only.
C30_Witness ==
    /\ supervisor = "none"
    /\ actorPhase = "stopped"
    /\ sentCount = 3
    /\ replies = <<1>>
    /\ dropped = {[id |-> 3, kind |-> "Chat", at |-> "mailbox"]}
    /\ actorAgent = ChatTurn(NewAgentSession, 1, TRUE)

(***************************************************************************)
(*                      COMMAND NAMES OF SKILLS                            *)
(*                                                                         *)
(* sanitize_command_name turns the name of a skill into the name of its    *)
(* slash command.  A name is a sequence of characters; the characters of   *)
(* the model are two letters in both cases, a digit, a letter outside      *)
(* ASCII that has no ASCII lower case, and some punctuation.               *)
(***************************************************************************)

\* The number of characters sanitize_command_name keeps.
MaxCommandNameLen == 32

\* char::is_alphanumeric
is_alphanumeric(ch) == ch \in {"a", "b", "A", "B", "7", "É"}

\* char::to_ascii_lowercase
to_ascii_lowercase(ch) ==
    IF ch = "A" THEN "a" ELSE IF ch = "B" THEN "b" ELSE ch

\* str::trim_matches(ch)
trim_matches(str, ch) ==
    LET kept == {i \in 1..Len(str) : str[i] # ch}
    IN  IF kept = {} THEN <<>>
        ELSE SubSeq(str, MinOf(kept),
                    CHOOSE last \in kept : \A i \in kept : i <= last)

\* Iterator::take(n) on the characters of a string
take(str, n) == SubSeq(str, 1, IF Len(str) < n THEN Len(str) ELSE n)

\* The characters mapped one by one.
sanitize_chars(name) ==
    [i \in 1..Len(name) |->
        IF is_alphanumeric(name[i]) THEN to_ascii_lowercase(name[i]) ELSE "-"]

\* sanitize_command_name: map, trim the hyphens, then keep the first 32.
sanitize_command_name(name) ==
    take(trim_matches(sanitize_chars(name), "-"), MaxCommandNameLen)

\* The names the model sanitizes: a few characters, a run of one letter,
\* and a few characters again.
SkillChars == {"A", " ", "-", "!", "7", "É"}
MaxAffix == 2
MaxRun == 33
SkillNames ==
    {head \o Repeat("a", n) \o rest :
        head \in SeqsUpTo(SkillChars, 1), n \in 0..MaxRun,
        rest \in SeqsUpTo(SkillChars, MaxAffix)}

skillFrame ==
    <<clock, cronVars, bridgeVars, actorVars, vaultVars, clientVars, filterVars,
      toolVars, searchVars, superVars, botVars, lastVars>>

\* parse_skill_file: the command name of the skill is derived from its name.
DeriveCommandName ==
    /\ commandName = <<>>
    /\ commandName' = <<sanitize_command_name(skillName)>>
    /\ UNCHANGED <<skillFrame, skillName, commandAgain>>

\* The command name is sanitized once more.
DeriveAgain ==
    /\ commandName # <<>>
    /\ commandAgain = <<>>
    /\ commandAgain' = <<sanitize_command_name(commandName[1])>>
    /\ UNCHANGED <<skillFrame, skillName, commandName>>

SkillInit ==
    /\ clock = 0
    /\ CronIdle
    /\ BridgeIdle
    /\ ActorIdle
    /\ VaultIdle
    /\ ClientIdle
    /\ FilterIdle
    /\ ToolsIdle
    /\ SearchIdle
    /\ supervisor = "none"
    /\ BotIdle
    /\ LastIdle
    /\ skillName \in SkillNames
    /\ commandName = <<>>
    /\ commandAgain = <<>>

SkillNext == DeriveCommandName \/ DeriveAgain

SpecSkills == SkillInit /\ [][SkillNext]_vars

\* C28: sanitizing is idempotent: the command name derived from a command
\* name is that command name.
C28_SanitizeIdempotent ==
    commandAgain # <<>> => commandAgain = commandName

\* A name of 31 letters, a space and a letter: the space becomes a hyphen,
\* the 32 characters kept end with it, and a second pass trims it.
C28_HyphenLeftAtTheCut ==
    /\ skillName = Repeat("a", 31) \o <<" ", "A">>
    /\ commandName = <<Repeat("a", 31) \o <<"-">>>>
    /\ commandAgain = <<Repeat("a", 31)>>

\* Names whose mapped and trimmed form fits in 32 characters are fixed by
\* a second pass.
C28_ShortNamesIdempotent ==
    (/\ commandAgain # <<>>
     /\ Len(trim_matches(sanitize_chars(skillName), "-")) <= MaxCommandNameLen)
        => commandAgain = commandName

\* The example of the test suite in small: "Aa!7" becomes "aa-7" and
\* stays.
C28_ShortNameSanitized ==
    /\ skillName = <<"A", "a", "!", "7">>
    /\ commandName = <<<<"a", "a", "-", "7">>>>
    /\ commandAgain = commandName

(***************************************************************************)
(*                     PAIRING OF THE TELEGRAM BRIDGE                      *)
(*                                                                         *)
(* handle_message, handle_pairing and handle_command of the Telegram       *)
(* bridge.  The dispatcher runs the handler once per message, one message  *)
(* of a chat at a time and the messages of different chats concurrently;   *)
(* every user writes in a private chat, whose id is the user's.  A handler *)
(* is cut into steps where it awaits a mutex that another handler may      *)
(* hold: handle_message keeps the paired_user guard while it sends its     *)
(* refusal, and handle_pairing keeps the pending_pairing_code guard until  *)
(* it returns.  A text is a sequence of tokens: a pairing code, a command  *)
(* word, a word, or a blank.                                               *)
(***************************************************************************)

BotUsers == {1, 2, 3}
PairingCodes == {"111111", "222222"}
BotTexts ==
    {<<"111111">>, <<" ", "111111", " ">>, <<"222222">>, <<"/unpair">>,
     <<"/new">>, <<"hi">>}
MaxUpdates == 4

NoUpdate == [phase |-> "none", text |-> <<>>]

\* str::starts_with('/')
starts_with_slash(text) ==
    text # <<>> /\ text[1] \in {"/start", "/help", "/new", "/unpair"}

\* The record of a step that looked at the pairing.
BotStep(user, step) ==
    [user |-> user, step |-> step, text |-> updates[user].text,
     pairedBefore |-> paired_user, pendingBefore |-> pending_pairing_code]

botFrame ==
    <<clock, cronVars, bridgeVars, actorVars, vaultVars, clientVars, filterVars,
      toolVars, searchVars, superVars, skillVars, lastVars>>

\* The dispatcher hands a text message of a user to handle_message.
Receive(user, text) ==
    /\ updates[user].phase = "none"
    /\ updateCount < MaxUpdates
    /\ updateCount' = updateCount + 1
    /\ updates' = [updates EXCEPT ![user] = [phase |-> "received", text |-> text]]
    /\ botLast' = NoBotStep
    /\ UNCHANGED <<botFrame, paired_user, pending_pairing_code, pairing_file,
                   botSessions, pairedLock, pendingLock>>

\* handle_message: the check of the pairing, under the paired_user mutex.
\* Another user's message is refused with the guard still held; with
\* nobody paired the message goes to handle_pairing; the paired user's
\* message goes to handle_command or to handle_chat.
CheckPairing(user) ==
    /\ updates[user].phase = "received"
    /\ pairedLock = <<>>
    /\ LET text == updates[user].text
           route == IF paired_user = <<>> THEN "pairing"
                    ELSE IF paired_user[1] # user THEN "refusing"
                    ELSE IF starts_with_slash(text) THEN "command"
                    ELSE "chat"
       IN  /\ updates' = [updates EXCEPT ![user].phase = route]
           /\ pairedLock' = IF route = "refusing" THEN <<user>> ELSE <<>>
    /\ botLast' = BotStep(user, "check")
    /\ UNCHANGED <<botFrame, paired_user, pending_pairing_code, pairing_file,
                   botSessions, pendingLock, updateCount>>

\* handle_message: "Not authorized" has been sent, or could not be.
RefusalSent(user) ==
    /\ updates[user].phase = "refusing"
    /\ updates' = [updates EXCEPT ![user] = NoUpdate]
    /\ pairedLock' = <<>>
    /\ botLast' = NoBotStep
    /\ UNCHANGED <<botFrame, paired_user, pending_pairing_code, pairing_file,
                   botSessions, pendingLock, updateCount>>

\* handle_pairing, from the pending_pairing_code mutex on.  Without a
\* pending code a new one is generated; with one, the trimmed text is
\* compared with it, and on a match the pairing file is written.
PairingLocks(user) ==
    /\ updates[user].phase = "pairing"
    /\ pendingLock = <<>>
    /\ pendingLock' = <<user>>
    /\ IF pending_pairing_code = <<>>
       THEN /\ \E code \in PairingCodes : pending_pairing_code' = <<code>>
            /\ updates' = [updates EXCEPT ![user].phase = "replying"]
            /\ UNCHANGED pairing_file
       ELSE IF trim(updates[user].text) = pending_pairing_code
       THEN \E saved \in BOOLEAN :
                /\ pairing_file' = IF saved THEN <<user>> ELSE pairing_file
                /\ updates' = [updates EXCEPT ![user].phase =
                                   IF saved THEN "saved" ELSE "replying"]
                /\ UNCHANGED pending_pairing_code
       ELSE /\ updates' = [updates EXCEPT ![user].phase = "replying"]
            /\ UNCHANGED <<pending_pairing_code, pairing_file>>
    /\ botLast' = NoBotStep
    /\ UNCHANGED <<botFrame, paired_user, botSessions, pairedLock, updateCount>>

\* handle_pairing: the file is written; the user becomes the paired user
\* and the pending code is taken back.
PairingSets(user) ==
    /\ updates[user].phase = "saved"
    /\ pairedLock = <<>>
    /\ paired_user' = <<user>>
    /\ pending_pairing_code' = <<>>
    /\ updates' = [updates EXCEPT ![user].phase = "replying"]
    /\ botLast' = BotStep(user, "paired")
    /\ UNCHANGED <<botFrame, pairing_file, botSessions, pairedLock, pendingLock,
                   updateCount>>

\* handle_pairing: the reply has been sent, or could not be; the guard of
\* the pending code is dropped.
ReplySent(user) ==
    /\ updates[user].phase = "replying"
    /\ updates' = [updates EXCEPT ![user] = NoUpdate]
    /\ pendingLock' = <<>>
    /\ botLast' = NoBotStep
    /\ UNCHANGED <<botFrame, paired_user, pending_pairing_code, pairing_file,
                   botSessions, pairedLock, updateCount>>

\* handle_command.  /unpair forgets the paired user, removes the pairing
\* file without looking at the outcome, and drops the session of the chat;
\* /new drops the session; the other commands only answer.
CommandRuns(user) ==
    /\ updates[user].phase = "command"
    /\ LET cmd == updates[user].text[1]
       IN  IF cmd = "/unpair"
           THEN /\ pairedLock = <<>>
                /\ paired_user' = <<>>
                /\ \E removed \in BOOLEAN :
                       pairing_file' = IF removed THEN <<>> ELSE pairing_file
                /\ botSessions' = botSessions \ {user}
                /\ botLast' = BotStep(user, "unpair")
           ELSE /\ botSessions' = IF cmd = "/new" THEN botSessions \ {user}
                                  ELSE botSessions
                /\ botLast' = NoBotStep
                /\ UNCHANGED <<paired_user, pairing_file>>
    /\ updates' = [updates EXCEPT ![user] = NoUpdate]
    /\ UNCHANGED <<botFrame, pending_pairing_code, pairedLock, pendingLock,
                   updateCount>>

\* handle_chat: the chat gets a session unless the agent cannot be built,
\* and the turn runs.
ChatRuns(user) ==
    /\ updates[user].phase = "chat"
    /\ \E built \in BOOLEAN :
           botSessions' = IF built THEN botSessions \cup {user} ELSE botSessions
    /\ updates' = [updates EXCEPT ![user] = NoUpdate]
    /\ botLast' = NoBotStep
    /\ UNCHANGED <<botFrame, paired_user, pending_pairing_code, pairing_file,
                   pairedLock, pendingLock, updateCount>>

\* main: the paired user is the one of the pairing file, if there is one.
BotInit ==
    /\ clock = 0
    /\ CronIdle
    /\ BridgeIdle
    /\ ActorIdle
    /\ VaultIdle
    /\ ClientIdle
    /\ FilterIdle
    /\ ToolsIdle
    /\ SearchIdle
    /\ supervisor = "none"
    /\ SkillsIdle
    /\ LastIdle
    /\ pairing_file \in {<<>>, <<1>>}
    /\ paired_user = pairing_file
    /\ pending_pairing_code = <<>>
    /\ botSessions = {}
    /\ updates = [user \in BotUsers |-> NoUpdate]
    /\ pairedLock = <<>>
    /\ pendingLock = <<>>
    /\ botLast = NoBotStep
    /\ updateCount = 0

BotNext ==
    \/ \E user \in BotUsers, text \in BotTexts : Receive(user, text)
    \/ \E user \in BotUsers :
           \/ CheckPairing(user)
           \/ RefusalSent(user)
           \/ PairingLocks(user)
           \/ PairingSets(user)
           \/ ReplySent(user)
           \/ CommandRuns(user)
           \/ ChatRuns(user)

SpecBot == BotInit /\ [][BotNext]_vars

(***************************************************************************)
(*                     PROPERTIES OF THE PAIRING                           *)
(***************************************************************************)

\* A message whose check found another user paired is refused.
RefusedWhenChecked ==
    (/\ botLast.step = "check"
     /\ botLast.pairedBefore # <<>>
     /\ botLast.pairedBefore # <<botLast.user>>)
        => updates[botLast.user].phase = "refusing"

\* While somebody is paired, only that user's message is in a handler.
OnlyThePairedInHandlers ==
    \A user \in BotUsers :
        (updates[user].phase \in {"command", "chat"} /\ paired_user # <<>>)
            => paired_user = <<user>>

\* A user becomes the paired user with the pending code, while nobody is.
PairedByCodeWhileUnpaired ==
    botLast.step = "paired"
        => /\ botLast.pairedBefore = <<>>
           /\ trim(botLast.text) = botLast.pendingBefore
           /\ paired_user = <<botLast.user>>

\* /unpair of the paired user clears the pairing in memory and on disk.
UnpairClears ==
    botLast.step = "unpair"
        => /\ botLast.pairedBefore = <<botLast.user>>
           /\ paired_user = <<>>
           /\ pairing_file = <<>>

\* C29: at most one user is paired; while somebody is, the messages of the
\* others are refused and reach no handler; a user becomes the paired one
\* only with the pending code and while nobody is paired; /unpair of the
\* paired user clears the pairing in memory and on disk.
C29_PairingGuardsTheBot ==
    /\ Len(paired_user) <= 1
    /\ RefusedWhenChecked
    /\ OnlyThePairedInHandlers
    /\ PairedByCodeWhileUnpaired
    /\ UnpairClears

\* A user has become the paired one while another user was.
C29_PairedUserReplaced ==
    /\ botLast.step = "paired"
    /\ botLast.pairedBefore # <<>>
    /\ botLast.pairedBefore # <<botLast.user>>

\* /unpair has left the pairing file on disk.
C29_UnpairedButOnDisk ==
    /\ botLast.step = "unpair"
    /\ paired_user = <<>>
    /\ pairing_file # <<>>

(***************************************************************************)
(*                     THE CHUNKS OF A CHATSTREAM                          *)
(***************************************************************************)

\* The chunks that end a stream.
TerminalChunks == {"Done", "Error"}

\* A chunk sequence that ends with its only terminal chunk.
EndsWithOneTerminal(chunks) ==
    /\ chunks # <<>>
    /\ chunks[Len(chunks)] \in TerminalChunks
    /\ \A i \in 1..(Len(chunks) - 1) : chunks[i] \notin TerminalChunks

\* The ChatStream arm has finished for the message in hand.
ChatStreamHandled ==
    /\ Handling("ChatStream")
    /\ replies' = Append(replies, current[1].id)

\* C31: the chunk sequence of every ChatStream request ends with exactly
\* one terminal chunk, Done when the turn succeeded and Error when it
\* failed, and no chunk follows it.
C31_StreamEndsWithTerminal ==
    [][/\ ChatStreamHandled =>
            /\ current[1].id \in DOMAIN streams'
            /\ EndsWithOneTerminal(streams'[current[1].id])
            /\ streams'[current[1].id][Len(streams'[current[1].id])] =
                   IF Len(actorAgent'.messages) = Len(actorAgent.messages) + 2
                   THEN "Done" ELSE "Error"
        /\ \A id \in DOMAIN streams : streams'[id] = streams[id]]_vars

\* Every channel that was handed to a caller carries Content and then Done,
\* and nothing is added to it later.
C31_HandedOutStreamsComplete ==
    [][/\ \A id \in DOMAIN streams' :
            /\ streams'[id] = <<"Content", "Done">>
            /\ EndsWithOneTerminal(streams'[id])
       /\ \A id \in DOMAIN streams : streams'[id] = streams[id]]_vars

\* A ChatStream whose turn failed was answered, and its channel got no
\* chunk at all.
C31_FailedStreamHasNoChunk ==
    /\ replies = <<1>>
    /\ streams = EmptyMap
    /\ actorAgent.messages = <<[role |-> "User", req |-> 1]>>
    /\ dropped = {}
    /\ sentCount = 1

(***************************************************************************)
(*                    EXPIRY OF THE SEARCH CACHE                           *)
(***************************************************************************)

\* The searches that had put an answer for the query of search j in the
\* cache before j started.
PutBefore(j) ==
    {i \in 1..searchLog[j].seen :
        /\ searchLog[i].ok
        /\ searchLog[i].called
        /\ trim(to_lowercase(searchLog[i].query))
              = trim(to_lowercase(searchLog[j].query))}

\* The last step that touched the cache was a put, at this second.
JustPut ==
    /\ searchLog # <<>>
    /\ searchLog[Len(searchLog)].ok
    /\ searchLog[Len(searchLog)].called
    /\ searchLog[Len(searchLog)].finished = clock

\* C32: a search is served from the cache only if the entry of its key, the
\* last one put, is less than the TTL old; with TTL 0 no search is served
\* from the cache; right after a put every entry of the cache is less than
\* the TTL old.
C32_NeverServedAfterTtl ==
    /\ \A j \in DOMAIN searchLog :
          searchLog[j].response.cached =>
              /\ ttl > 0
              /\ PutBefore(j) # {}
              /\ LET last == CHOOSE i \in PutBefore(j) :
                                \A k \in PutBefore(j) : k <= i
                 IN  /\ searchLog[j].started - searchLog[last].finished < ttl
                     /\ searchLog[j].response.results
                           = searchLog[last].response.results
    /\ JustPut =>
          \A key \in DOMAIN searchCache :
              clock - searchCache[key].inserted_at < ttl

\* C32 witness: with a TTL of two seconds "a" was answered by the provider
\* at second 0; at second 2 the entry is no longer served, the provider is
\* asked again for "a", and the put has replaced the entry.
C32_Witness ==
    /\ ttl = 2
    /\ clock = 2
    /\ Len(searchLog) = 2
    /\ searchLog[1].query = <<"a">>
    /\ searchLog[1].called /\ searchLog[1].ok
    /\ searchLog[1].finished = 0
    /\ searchLog[2].query = <<"a">>
    /\ searchLog[2].started = 2
    /\ searchLog[2].called /\ searchLog[2].ok
    /\ searchCache[cache_key(ProviderName, <<"a">>)].inserted_at = 2

\* With a TTL of one second the put of "b" at second 1 has evicted the
\* entry of "a" of second 0.
C32_EvictedAtPut ==
    /\ ttl = 1
    /\ Len(searchLog) = 2
    /\ searchLog[1].query = <<"a">> /\ searchLog[1].finished = 0
    /\ searchLog[2].query = <<"b">> /\ searchLog[2].finished = 1
    /\ DOMAIN searchCache = {cache_key(ProviderName, <<"b">>)}

\* Search j started while search i of the same key was waiting for the
\* provider, or less than the TTL after its answer was put in the cache.
InWindowOf(i, j) ==
    /\ i # j
    /\ searchLog[i].called
    /\ searchLog[i].ok
    /\ trim(to_lowercase(searchLog[i].query))
          = trim(to_lowercase(searchLog[j].query))
    /\ searchLog[i].started <= searchLog[j].started
    /\ searchLog[j].started - searchLog[i].finished < ttl
    /\ searchLog[i].id < searchLog[j].id

\* C38: with caching on, a search that starts while a search of the same
\* key is in flight, or within the TTL of its answer, does not call the
\* provider: the provider is called once per key and TTL window.
C38_OneProviderCallPerWindow ==
    \A i, j \in DOMAIN searchLog :
        (ttl > 0 /\ InWindowOf(i, j)) => ~searchLog[j].called

\* Two searches of "a" started in the same second, both missed the cache
\* and both were answered by the provider.
C38_TwoProviderCalls ==
    /\ ttl = 2
    /\ Len(searchLog) = 2
    /\ \A i \in 1..2 :
          /\ searchLog[i].query = <<"a">>
          /\ searchLog[i].started = 0
          /\ searchLog[i].called
          /\ searchLog[i].ok

\* Searches that do not overlap: the second starts after the first has
\* returned, within the TTL of its answer, and does not call the provider.
C38_OneCallWhenNotOverlapping ==
    \A i, j \in DOMAIN searchLog :
        (/\ ttl > 0
         /\ InWindowOf(i, j)
         /\ i <= searchLog[j].seen) => ~searchLog[j].called

(***************************************************************************)
(*                 THE END OF A TASK OF THE CRON SCHEDULER                 *)
(***************************************************************************)

\* C37: when the task of a job ends, the running flag of the entry that
\* spawned it is cleared and nothing else of any entry changes, also when
\* two entries share a name.
C37_EndClearsTheSpawnedEntry ==
    [][\A t \in tasks :
          (t \notin tasks') =>
              jobs' = [jobs EXCEPT ![t.job].running = FALSE]]_vars

\* Both entries are named alike, both were spawned, the task of the second
\* has ended: the first entry is marked idle while its task runs, and the
\* second is marked running without a task.
C37_WrongEntryCleared ==
    /\ Len(jobs) >= 2
    /\ jobs[1].name = jobs[2].name
    /\ ~jobs[1].running /\ jobs[2].running
    /\ \E t \in tasks : t.job = 1
    /\ \A t \in tasks : t.job # 2

\* With names that differ the entry that spawned the task is the one
\* cleared.
C37_DistinctNamesCleared ==
    [][\A t \in tasks :
          (t \notin tasks' /\ \A i \in DOMAIN jobs :
                                 i # t.job => jobs[i].name # t.name) =>
              jobs' = [jobs EXCEPT ![t.job].running = FALSE]]_vars

(***************************************************************************)
(*             FAILED CREATION OF A SESSION OF THE BRIDGE                  *)
(***************************************************************************)

\* The handler of c held the sessions mutex for `method` and has returned.
ReturnedFrom(c, method) ==
    /\ Locked(c, method)
    /\ rpc'[c] = <<>>

TokenUnit == 60          \* one token, in sixtieths
CleanupCutoff == 300     \* cleanup removes the buckets idle this long

Ips == {"ip1", "ip2"}
RequestsPerMinute == {30, 60, 90}
Bursts == {0, 1}
Pauses == {1, 300}
\* The instants at which the limiter is looked at: the first seconds, and
\* the same seconds after a pause as long as the cutoff of cleanup.
LimiterInstants == {0, 1, 2, 3, 300, 301, 302, 303}

\* f64::min
f64_min(a, b) == IF a <= b THEN a ELSE b

\* RateLimiter::new
RateLimiterNew(requests_per_minute, burst, enabled) ==
    [rate |-> requests_per_minute,
     max_tokens |-> requests_per_minute + burst * TokenUnit,
     enabled |-> enabled]

\* The bucket check finds for the ip: the one there is or a full one.
BucketOf(ip) ==
    IF buckets[ip] = <<>>
    THEN [tokens |-> limiter[1].max_tokens, last_refill |-> clock]
    ELSE buckets[ip][1]

\* The refill of check: tokens + elapsed * rate, capped at max_tokens.
Refilled(bucket) ==
    f64_min(bucket.tokens + (clock - bucket.last_refill) * limiter[1].rate,
            limiter[1].max_tokens)

limiterFrame ==
    <<cronVars, bridgeVars, actorVars, vaultVars, clientVars, filterVars,
      toolVars, searchVars, superVars, skillVars, botVars, promptVars,
      mcpVars, pruneVars>>

\* RateLimiter::check(ip), under the lock of the buckets.
LimiterCheck(ip) ==
    /\ limiter # <<>>
    /\ IF ~limiter[1].enabled
       THEN /\ limiterLast' = <<[ip |-> ip, allowed |-> TRUE, fresh |-> FALSE,
                                elapsed |-> 0, checked |-> FALSE]>>
            /\ UNCHANGED buckets
       ELSE LET bucket == BucketOf(ip)
                tokens == Refilled(bucket)
                allowed == tokens >= TokenUnit
            IN /\ buckets' = [buckets EXCEPT ![ip] =
                                 <<[tokens |-> IF allowed
                                               THEN tokens - TokenUnit
                                               ELSE tokens,
                                    last_refill |-> clock]>>]
               /\ limiterLast' = <<[ip |-> ip, allowed |-> allowed,
                                   fresh |-> buckets[ip] = <<>>,
                                   elapsed |-> clock - bucket.last_refill,
                                   checked |-> TRUE]>>
    /\ UNCHANGED <<clock, limiter, limiterFrame>>

\* RateLimiter::cleanup, run by the task create_rate_limiter spawns.
LimiterCleanup ==
    /\ limiter # <<>>
    /\ buckets' = [ip \in Ips |->
                      IF buckets[ip] # <<>>
                         /\ clock - buckets[ip][1].last_refill < CleanupCutoff
                      THEN buckets[ip]
                      ELSE <<>>]
    /\ UNCHANGED <<clock, limiter, limiterLast, limiterFrame>>

\* Time passes without a request.
LimiterPause(d) ==
    /\ limiter # <<>>
    /\ clock + d \in LimiterInstants
    /\ clock' = clock + d
    /\ UNCHANGED <<limiter, buckets, limiterLast, limiterFrame>>

LimiterInit ==
    /\ clock = 0
    /\ CronIdle
    /\ BridgeIdle
    /\ ActorIdle
    /\ VaultIdle
    /\ ClientIdle
    /\ FilterIdle
    /\ ToolsIdle
    /\ SearchIdle
    /\ supervisor = "none"
    /\ SkillsIdle
    /\ BotIdle
    /\ PromptIdle
    /\ McpIdle
    /\ PruneIdle
    /\ \E requests_per_minute \in RequestsPerMinute, burst \in Bursts,
          enabled \in BOOLEAN :
           limiter = <<RateLimiterNew(requests_per_minute, burst, enabled)>>
    /\ buckets = [ip \in Ips |-> <<>>]
    /\ limiterLast = <<>>

LimiterNext ==
    \/ \E ip \in Ips : LimiterCheck(ip)
    \/ LimiterCleanup
    \/ \E d \in Pauses : LimiterPause(d)

SpecLimiter == LimiterInit /\ [][LimiterNext]_vars

\* The last check was made with the limiter enabled, and after a long pause:
\* the ip had no bucket, or its bucket had been left alone long enough for
\* cleanup to remove it, which is longer than any bucket takes to fill.
CheckedAfterLongPause ==
    /\ limiterLast # <<>>
    /\ limiterLast[1].checked
    /\ limiterLast[1].fresh \/ limiterLast[1].elapsed >= CleanupCutoff

\* C40: with the limiter enabled and requests_per_minute > 0, a request
\* made after a long enough pause without requests is allowed, for every
\* requests_per_minute, every burst and every ip.
C40_AllowedAfterLongPause ==
    CheckedAfterLongPause => limiterLast[1].allowed

\* A limiter of less than 60 requests a minute and no burst refuses the
\* first request of an ip.
C40_FirstRequestRefused ==
    /\ CheckedAfterLongPause
    /\ limiterLast[1].fresh
    /\ limiter[1].max_tokens < TokenUnit
    /\ ~limiterLast[1].allowed

\* Where the bucket holds one token at least, a request after a long pause
\* is allowed.
C40_AllowedWhereATokenFits ==
    (CheckedAfterLongPause /\ limiter[1].max_tokens >= TokenUnit)
        => limiterLast[1].allowed

\* A check of one ip leaves the buckets of the other ips as they are.
C40_OtherBucketsUntouched ==
    [][\A ip \in Ips :
          LimiterCheck(ip) =>
              \A other \in Ips \ {ip} : buckets'[other] = buckets[other]]_vars

\* An ip was refused while the other ip had tokens left.
C40_RefusedBesideAFullBucket ==
    /\ limiterLast # <<>>
    /\ limiterLast[1].checked
    /\ ~limiterLast[1].allowed
    /\ limiter[1].max_tokens >= TokenUnit
    /\ \E other \in Ips \ {limiterLast[1].ip} :
           /\ buckets[other] # <<>>
           /\ buckets[other][1].tokens >= TokenUnit


(***************************************************************************)
(* THE MCP SERVERS (crates/core/src/mcp/mod.rs, client.rs, tools.rs).      *)
(* What a server will do when it is connected to is the state of the       *)
(* world connect_all finds: it is drawn with the configuration.            *)
(***************************************************************************)
McpServerNames == {<<"a">>, <<"a", "_", "b">>, <<"a", "-", "b">>}
McpToolNames == {<<"b">>, <<"b", "_", "b">>}
\* transport and whether its command (stdio) or url (sse, http) is given
McpTransports ==
    {[transport |-> "stdio", target |-> TRUE],
     [transport |-> "stdio", target |-> FALSE],
     [transport |-> "http", target |-> TRUE],
     [transport |-> "grpc", target |-> TRUE]}
\* where the server fails: when its transport is made, in the initialize
\* handshake, at tools/list, or nowhere
McpFaults == {"none", "transport", "initialize", "list"}
McpToolLists == {<<>>} \cup {<<t>> : t \in McpToolNames}
                    \cup {<<<<"b">>, <<"b", "_", "b">>>>}

McpServers ==
    {[name |-> n, transport |-> tr.transport, target |-> tr.target,
      fault |-> f, tools |-> tl] :
        n \in McpServerNames, tr \in McpTransports, f \in McpFaults,
        tl \in McpToolLists}

\* connect_server: the tools of the server, or the step that failed.
connect_server(config) ==
    IF config.transport \notin {"stdio", "sse", "http"}
    THEN [ok |-> FALSE, error |-> "unknown transport", tools |-> <<>>]
    ELSE IF ~config.target
    THEN [ok |-> FALSE, error |-> "missing command or url", tools |-> <<>>]
    ELSE IF config.fault = "transport"
    THEN [ok |-> FALSE, error |-> "transport", tools |-> <<>>]
    ELSE IF config.fault = "initialize"
    THEN [ok |-> FALSE, error |-> "initialize", tools |-> <<>>]
    ELSE IF config.fault = "list"
    THEN [ok |-> FALSE, error |-> "tools/list", tools |-> <<>>]
    ELSE [ok |-> TRUE, error |-> "none", tools |-> config.tools]

\* str::replace(|c| !c.is_alphanumeric(), "_")
replace_non_alphanumeric(str) ==
    [i \in 1..Len(str) |-> IF is_alphanumeric(str[i]) THEN str[i] ELSE "_"]

\* McpTool::new: the wrapper of a tool of a server.
McpToolNew(server, server_name, remote_name) ==
    [namespaced_name |->
         <<"m", "c", "p", "_">> \o replace_non_alphanumeric(server_name)
             \o <<"_">> \o replace_non_alphanumeric(remote_name),
     remote_name |-> remote_name,
     server_name |-> server_name,
     client |-> server]

\* The body of the loop of connect_all for the server at position i, run on
\* a failure that ends the whole call: what is collected so far is lost.
ConnectedOrGivenUp(acc, i) ==
    LET result == connect_server(mcpConfigs[i])
    IN IF result.ok
       THEN [clients |-> Append(acc.clients, i),
             all_tools |-> acc.all_tools \o
                 [k \in 1..Len(result.tools) |->
                     McpToolNew(i, mcpConfigs[i].name, result.tools[k])]]
       ELSE [clients |-> <<>>, all_tools |-> <<>>]

\* The body of the loop of connect_all for the server at position i: its
\* tools are wrapped and its client kept, or its failure is logged.
Connected(acc, i) ==
    LET result == connect_server(mcpConfigs[i])
    IN IF result.ok
       THEN [clients |-> Append(acc.clients, i),
             all_tools |-> acc.all_tools \o
                 [k \in 1..Len(result.tools) |->
                     McpToolNew(i, mcpConfigs[i].name, result.tools[k])]]
       ELSE acc

mcpFrame ==
    <<clock, cronVars, bridgeVars, actorVars, vaultVars, clientVars, filterVars,
      toolVars, searchVars, superVars, skillVars, botVars, promptVars,
      pruneVars, limiterVars>>

\* connect_all comes to the next server.
ConnectNextServer ==
    /\ mcpReturned = <<>>
    /\ mcpCursor <= Len(mcpConfigs)
    /\ LET acc == Connected([clients |-> mcpClients,
                             all_tools |-> mcpToolList], mcpCursor)
       IN /\ mcpClients' = acc.clients
          /\ mcpToolList' = acc.all_tools
    /\ mcpCursor' = mcpCursor + 1
    /\ UNCHANGED <<mcpConfigs, mcpReturned, mcpFrame>>

\* connect_all has gone through the servers and returns Ok.
ConnectAllReturns ==
    /\ mcpReturned = <<>>
    /\ mcpCursor > Len(mcpConfigs)
    /\ mcpReturned' = <<"Ok">>
    /\ UNCHANGED <<mcpConfigs, mcpCursor, mcpClients, mcpToolList, mcpFrame>>

McpInit ==
    /\ clock = 0
    /\ CronIdle
    /\ BridgeIdle
    /\ ActorIdle
    /\ VaultIdle
    /\ ClientIdle
    /\ FilterIdle
    /\ ToolsIdle
    /\ SearchIdle
    /\ supervisor = "none"
    /\ SkillsIdle
    /\ BotIdle
    /\ PromptIdle
    /\ PruneIdle
    /\ LimiterIdle
    /\ mcpConfigs \in SeqsUpTo(McpServers, 2)
    /\ mcpCursor = 1
    /\ mcpClients = <<>>
    /\ mcpToolList = <<>>
    /\ mcpReturned = <<>>

McpNext == ConnectNextServer \/ ConnectAllReturns

SpecMcp == McpInit /\ [][McpNext]_vars

\* The tools of the list that the server at position i contributed.
ToolsOf(i) ==
    SelectSeq(mcpToolList, LAMBDA tool : tool.client = i)

\* The server at position i is one that fails.
ServerFails(i) ==
    \/ mcpConfigs[i].transport \notin {"stdio", "sse", "http"}
    \/ ~mcpConfigs[i].target
    \/ mcpConfigs[i].fault # "none"

\* The positions of a sequence of positions, as a set.
Positions(s) == {s[k] : k \in 1..Len(s)}

\* C34: connect_all tries every configured server in order; a server whose
\* transport setup, initialize handshake or tools/list fails contributes no
\* tools and no client, but the servers before and after it register their
\* tools all the same, and connect_all succeeds.
C34_FailuresKeptApart ==
    /\ mcpReturned \in {<<>>, <<"Ok">>}
    /\ mcpReturned # <<>> => mcpCursor > Len(mcpConfigs)
    /\ \A i \in 1..Len(mcpConfigs) :
           i < mcpCursor =>
               IF ServerFails(i)
               THEN ToolsOf(i) = <<>> /\ i \notin Positions(mcpClients)
               ELSE /\ i \in Positions(mcpClients)
                    /\ [k \in 1..Len(ToolsOf(i)) |-> ToolsOf(i)[k].remote_name]
                           = mcpConfigs[i].tools
    /\ \A k \in 1..Len(mcpClients) - 1 : mcpClients[k] < mcpClients[k + 1]
    /\ \A k \in 1..Len(mcpToolList) - 1 :
           mcpToolList[k].client <= mcpToolList[k + 1].client

\* connect_all has returned: the first server failed in the handshake and
\* the second one registered its two tools.
C34_Witness ==
    /\ mcpReturned = <<"Ok">>
    /\ Len(mcpConfigs) = 2
    /\ ServerFails(1)
    /\ mcpConfigs[1].fault = "initialize"
    /\ mcpClients = <<2>>
    /\ Len(mcpToolList) = 2

\* connect_all has returned: the second server failed and the tools of the
\* first one are registered.
C34_FailureAfter ==
    /\ mcpReturned = <<"Ok">>
    /\ Len(mcpConfigs) = 2
    /\ ServerFails(2)
    /\ mcpClients = <<1>>
    /\ Len(mcpToolList) = 2

\* The name ext_<server>_<tool>
ExtName(server_name, remote_name) ==
    <<"e", "x", "t", "_">> \o server_name \o <<"_">> \o remote_name

\* C35: every tool discovered from a server is registered under the name
\* ext_<server>_<tool>, and two different (server, tool) pairs never get
\* the same registered name.
C35_NamespacedNamesUnique ==
    /\ \A k \in 1..Len(mcpToolList) :
           mcpToolList[k].namespaced_name =
               ExtName(mcpToolList[k].server_name, mcpToolList[k].remote_name)
    /\ \A k, l \in 1..Len(mcpToolList) :
           (mcpToolList[k].namespaced_name = mcpToolList[l].namespaced_name)
               => /\ mcpToolList[k].server_name = mcpToolList[l].server_name
                  /\ mcpToolList[k].remote_name = mcpToolList[l].remote_name

\* Two tools of different servers and of different names are registered
\* under one name.
C35_TwoPairsOneName ==
    \E k, l \in 1..Len(mcpToolList) :
        /\ mcpToolList[k].namespaced_name = mcpToolList[l].namespaced_name
        /\ mcpToolList[k].server_name # mcpToolList[l].server_name
        /\ mcpToolList[k].remote_name # mcpToolList[l].remote_name

\* What the code gives: the name is mcp_<server>_<tool> with every
\* character that is not alphanumeric replaced by an underscore.
C35_McpPrefixAndSanitized ==
    \A k \in 1..Len(mcpToolList) :
        /\ SubSeq(mcpToolList[k].namespaced_name, 1, 4) = <<"m", "c", "p", "_">>
        /\ \A j \in 5..Len(mcpToolList[k].namespaced_name) :
               \/ is_alphanumeric(mcpToolList[k].namespaced_name[j])
               \/ mcpToolList[k].namespaced_name[j] = "_"


(***************************************************************************)
(* THE SKILLS OF THE SYSTEM PROMPT (crates/core/src/agent/skills.rs).      *)
(* A pattern of a condition is a record: whether Regex::new accepts it,    *)
(* and the regex it compiles to.  The host is the binaries on the PATH and *)
(* the environment variables set when the skills are loaded.               *)
(***************************************************************************)
RoutingMessages == {<<"a">>, <<"A", "b">>, <<"b">>}
RoutingChannels == {<<"a">>, <<"b">>}
RoutingToolSets == {{}, {"bash"}}

SkillRoutingContexts ==
    {[message |-> m, channel |-> ch, available_tools |-> ts] :
        m \in RoutingMessages, ch \in RoutingChannels, ts \in RoutingToolSets}

\* RoutingCondition::Contains(text)
ContainsCondition(text) == [kind |-> "Contains", text |-> text]

\* RoutingCondition::Complex(ComplexCondition { .. }), fields are Options
ComplexCondition(text, pattern, channel, has_tool) ==
    [kind |-> "Complex", contains |-> text, matches |-> pattern,
     channel |-> channel, has_tool |-> has_tool]

RoutingConditions ==
    {ContainsCondition(<<"A">>),
     ComplexCondition(<<<<"b">>>>, <<>>, <<<<"A">>>>, <<>>),
     ComplexCondition(<<>>,
                      <<[valid |-> TRUE, anchored |-> TRUE, literal |-> <<"A">>]>>,
                      <<>>, <<"bash">>),
     ComplexCondition(<<>>,
                      <<[valid |-> FALSE, anchored |-> FALSE, literal |-> <<>>]>>,
                      <<>>, <<>>)}

SkillRequirements ==
    {[bins |-> {}, any_bins |-> {}, env |-> {}],
     [bins |-> {"git"}, any_bins |-> {}, env |-> {"KEY"}],
     [bins |-> {}, any_bins |-> {"git", "hg"}, env |-> {}]}

SkillHosts == [bins : SUBSET {"git"}, env : SUBSET {"KEY"}]

\* str::eq_ignore_ascii_case
eq_ignore_ascii_case(a, b) ==
    /\ Len(a) = Len(b)
    /\ \A i \in 1..Len(a) : to_ascii_lowercase(a[i]) = to_ascii_lowercase(b[i])

\* RoutingCondition::matches
RoutingMatches(condition, ctx) ==
    IF condition.kind = "Contains"
    THEN contains(to_lowercase(ctx.message), to_lowercase(condition.text))
    ELSE IF /\ condition.contains # <<>>
            /\ ~contains(to_lowercase(ctx.message),
                         to_lowercase(condition.contains[1]))
    THEN FALSE
    ELSE IF /\ condition.matches # <<>>
            /\ IF condition.matches[1].valid
               THEN ~is_match(condition.matches[1], ctx.message)
               ELSE TRUE
    THEN FALSE
    ELSE IF /\ condition.channel # <<>>
            /\ ~eq_ignore_ascii_case(ctx.channel, condition.channel[1])
    THEN FALSE
    ELSE IF /\ condition.has_tool # <<>>
            /\ condition.has_tool[1] \notin ctx.available_tools
    THEN FALSE
    ELSE TRUE

\* check_eligibility, on a host
check_eligibility(requires, host) ==
    IF requires.bins \ host.bins # {}
    THEN "MissingBins"
    ELSE IF requires.any_bins # {} /\ requires.any_bins \cap host.bins = {}
    THEN "MissingAnyBins"
    ELSE IF requires.env \ host.env # {}
    THEN "MissingEnv"
    ELSE "Ready"

\* SkillEligibility::is_ready
is_ready(eligibility) == eligibility = "Ready"

\* Skill::include_in_prompt
include_in_prompt(skill) ==
    ~skill.disable_model_invocation /\ is_ready(skill.eligibility)

\* Skill::can_invoke
can_invoke(skill) == skill.user_invocable /\ is_ready(skill.eligibility)

\* The first condition of the sequence that matches, 0 if none does.
FirstMatch(conditions, ctx) ==
    LET hits == {i \in 1..Len(conditions) : RoutingMatches(conditions[i], ctx)}
    IN IF hits = {} THEN 0 ELSE CHOOSE i \in hits : \A j \in hits : i <= j

\* Skill::should_use with the two loops in the other order: a useWhen
\* condition that matches admits the skill before dontUseWhen is looked at.
should_use_admitting_first(skill, ctx) ==
    IF skill.use_when # <<>> /\ FirstMatch(skill.use_when, ctx) # 0
    THEN TRUE
    ELSE IF FirstMatch(skill.dont_use_when, ctx) # 0
    THEN FALSE
    ELSE skill.use_when = <<>>

\* Skill::should_use
should_use(skill, ctx) ==
    IF FirstMatch(skill.dont_use_when, ctx) # 0
    THEN FALSE
    ELSE IF skill.use_when = <<>>
    THEN TRUE
    ELSE FirstMatch(skill.use_when, ctx) # 0

\* build_skills_prompt: the names between <available_skills> and
\* </available_skills> and the names under "Available slash commands:", in
\* order; the empty string when no skill is to be listed.
build_skills_prompt(skills, ctx) ==
    LET prompt_skills ==
            SelectSeq(skills,
                      LAMBDA s : IF ~include_in_prompt(s)
                                 THEN FALSE
                                 ELSE IF ctx # <<>>
                                 THEN should_use(s, ctx[1])
                                 ELSE TRUE)
        invocable == SelectSeq(skills, can_invoke)
    IN IF prompt_skills = <<>>
       THEN [available_skills |-> <<>>, commands |-> <<>>]
       ELSE [available_skills |->
                 [i \in 1..Len(prompt_skills) |-> prompt_skills[i].name],
             commands |-> [i \in 1..Len(invocable) |-> invocable[i].name]]

\* A skill as load_skills makes it of its frontmatter on a host.
SkillOf(name, requires, host, disabled, invocable, use_when, dont_use_when) ==
    [name |-> name,
     eligibility |-> check_eligibility(requires, host),
     disable_model_invocation |-> disabled,
     user_invocable |-> invocable,
     use_when |-> use_when,
     dont_use_when |-> dont_use_when]

\* The skills with routing rules, and the skills without.
RoutedSkills(host) ==
    {SkillOf("routed", requires, host, disabled, TRUE, use_when, dont_use_when) :
        requires \in SkillRequirements, disabled \in BOOLEAN,
        use_when \in SeqsUpTo(RoutingConditions, 2),
        dont_use_when \in SeqsUpTo(RoutingConditions, 1)}

PlainSkills(host) ==
    {SkillOf("plain", requires, host, FALSE, invocable, <<>>, <<>>) :
        requires \in {r \in SkillRequirements : r.any_bins = {}},
        invocable \in BOOLEAN}

SkillLists(host) ==
    {<<s>> : s \in RoutedSkills(host)}
        \cup {<<s, t>> : s \in RoutedSkills(host), t \in PlainSkills(host)}
        \cup {<<t, s>> : s \in RoutedSkills(host), t \in PlainSkills(host)}

promptFrame ==
    <<clock, cronVars, bridgeVars, actorVars, vaultVars, clientVars, filterVars,
      toolVars, searchVars, superVars, skillVars, botVars, mcpVars, pruneVars,
      limiterVars>>

\* The system prompt of a turn is built.
BuildSkillsPrompt ==
    /\ skillList # <<>>
    /\ skillsPrompt = <<>>
    /\ skillsPrompt' = <<build_skills_prompt(skillList, routing_ctx)>>
    /\ UNCHANGED <<skillList, routing_ctx, promptFrame>>

PromptInit ==
    /\ clock = 0
    /\ CronIdle
    /\ BridgeIdle
    /\ ActorIdle
    /\ VaultIdle
    /\ ClientIdle
    /\ FilterIdle
    /\ ToolsIdle
    /\ SearchIdle
    /\ supervisor = "none"
    /\ SkillsIdle
    /\ BotIdle
    /\ McpIdle
    /\ PruneIdle
    /\ LimiterIdle
    /\ \E host \in SkillHosts : skillList \in SkillLists(host)
    /\ routing_ctx \in {<<>>} \cup {<<ctx>> : ctx \in SkillRoutingContexts}
    /\ skillsPrompt = <<>>

PromptNext == BuildSkillsPrompt

SpecPrompt == PromptInit /\ [][PromptNext]_vars

\* The skill is listed in the available-skills section of the prompt built.
Listed(skill) ==
    \E i \in 1..Len(skillsPrompt[1].available_skills) :
        skillsPrompt[1].available_skills[i] = skill.name

\* A condition of the sequence matches the routing context.
SomeMatches(conditions, ctx) ==
    \E i \in 1..Len(conditions) : RoutingMatches(conditions[i], ctx)

C33_WithoutContextAllListed ==
    (skillsPrompt # <<>> /\ routing_ctx = <<>>) =>
        \A i \in 1..Len(skillList) :
            Listed(skillList[i]) <=> include_in_prompt(skillList[i])

\* A skill was listed by a useWhen condition that matches, next to one
\* that does not.
C33_ListedByOneOfTwo ==
    /\ skillsPrompt # <<>>
    /\ routing_ctx # <<>>
    /\ \E i \in 1..Len(skillList) :
           /\ Len(skillList[i].use_when) = 2
           /\ ~RoutingMatches(skillList[i].use_when[1], routing_ctx[1])
           /\ RoutingMatches(skillList[i].use_when[2], routing_ctx[1])
           /\ Listed(skillList[i])


(***************************************************************************)
(* PRUNING OF SESSION FILES (crates/core/src/agent/session_pruning.rs).    *)
(* The directory is the sequence of files read_dir yields; a file has its  *)
(* path, its time of modification in seconds, its size, whether its        *)
(* extension is jsonl, and whether the file system lets it be removed.     *)
(***************************************************************************)
ModifiedTimes == {0, 1, 2, 3}
MaxAges == {<<>>, <<0>>, <<1>>}
MaxCounts == {<<>>, <<0>>, <<1>>, <<2>>}

SessionFiles(path) ==
    [path : {path}, modified : ModifiedTimes, size : {path},
     jsonl : BOOLEAN, removable : BOOLEAN]

SessionDirs ==
    {<<>>}
        \cup {<<f>> : f \in SessionFiles(1)}
        \cup {<<f, g>> : f \in SessionFiles(1), g \in SessionFiles(2)}
        \cup {<<f, g, h>> : f \in SessionFiles(1), g \in SessionFiles(2),
                            h \in SessionFiles(3)}

\* The file is put behind the files of the sequence that are not newer.
RECURSIVE InsertByModified(_, _)
InsertByModified(sorted, file) ==
    IF sorted = <<>>
    THEN <<file>>
    ELSE IF sorted[Len(sorted)].modified <= file.modified
    THEN Append(sorted, file)
    ELSE Append(InsertByModified(SubSeq(sorted, 1, Len(sorted) - 1), file),
                sorted[Len(sorted)])

\* sessions.sort_by_key(|s| s.modified), a stable sort
RECURSIVE sort_by_modified(_)
sort_by_modified(files) ==
    IF files = <<>>
    THEN <<>>
    ELSE InsertByModified(sort_by_modified(SubSeq(files, 1, Len(files) - 1)),
                          files[Len(files)])

\* The session files of the directory, oldest first.
CollectSessions(dir) ==
    sort_by_modified(SelectSeq(dir, LAMBDA f : f.jsonl))

\* The test of the first loop with >= for >: a file as old as max_age is
\* marked too.
is_as_old_as(file, age, now) ==
    file.modified <= now /\ now - file.modified >= age

\* The test of the first loop: now.duration_since(modified) is Ok and the
\* time elapsed is more than max_age.
is_older_than(file, age, now) ==
    file.modified <= now /\ now - file.modified > age

\* The files the two loops mark: those older than max_age, then the oldest
\* of the others in excess of max_count.
ToDelete(sorted, max_age, max_count, now) ==
    LET aged == IF max_age = <<>>
                THEN <<>>
                ELSE SelectSeq(sorted,
                               LAMBDA f : is_older_than(f, max_age[1], now))
        others == IF max_age = <<>>
                  THEN sorted
                  ELSE SelectSeq(sorted,
                                 LAMBDA f : ~is_older_than(f, max_age[1], now))
        remaining_count == Len(sorted) - Len(aged)
    IN IF max_count # <<>> /\ remaining_count > max_count[1]
       THEN aged \o SubSeq(others, 1, remaining_count - max_count[1])
       ELSE aged

\* The sum of the sizes of the files of a sequence.
RECURSIVE FreedBytes(_)
FreedBytes(files) ==
    IF files = <<>> THEN 0 ELSE files[1].size + FreedBytes(Tail(files))

pruneFrame ==
    <<cronVars, bridgeVars, actorVars, vaultVars, clientVars, filterVars,
      toolVars, searchVars, superVars, skillVars, botVars, promptVars,
      mcpVars, limiterVars>>

\* preview_prune
PreviewPrune ==
    /\ pruneArgs # <<>>
    /\ previewed = <<>>
    /\ LET to_delete == ToDelete(CollectSessions(sessionsDir),
                                 pruneArgs[1].max_age, pruneArgs[1].max_count,
                                 clock)
       IN previewed' =
              <<[to_delete |-> [i \in 1..Len(to_delete) |->
                                   <<to_delete[i].path, to_delete[i].size>>],
                 dir |-> sessionsDir]>>
    /\ UNCHANGED <<clock, sessionsDir, pruneArgs, pruned, pruneFrame>>

\* prune_sessions
PruneSessions ==
    /\ pruneArgs # <<>>
    /\ pruned = <<>>
    /\ LET to_delete == ToDelete(CollectSessions(sessionsDir),
                                 pruneArgs[1].max_age, pruneArgs[1].max_count,
                                 clock)
           removed == SelectSeq(to_delete, LAMBDA f : f.removable)
       IN /\ sessionsDir' =
                 SelectSeq(sessionsDir,
                           LAMBDA f : \A i \in 1..Len(removed) : removed[i] # f)
          /\ pruned' = <<[deleted |-> Len(removed),
                          freed_bytes |-> FreedBytes(removed),
                          before |-> sessionsDir]>>
    /\ UNCHANGED <<clock, pruneArgs, previewed, pruneFrame>>

PruneInit ==
    /\ clock = 2
    /\ CronIdle
    /\ BridgeIdle
    /\ ActorIdle
    /\ VaultIdle
    /\ ClientIdle
    /\ FilterIdle
    /\ ToolsIdle
    /\ SearchIdle
    /\ supervisor = "none"
    /\ SkillsIdle
    /\ BotIdle
    /\ PromptIdle
    /\ McpIdle
    /\ LimiterIdle
    /\ sessionsDir \in SessionDirs
    /\ \E max_age \in MaxAges, max_count \in MaxCounts :
           pruneArgs = <<[max_age |-> max_age, max_count |-> max_count]>>
    /\ previewed = <<>>
    /\ pruned = <<>>

PruneNext == PreviewPrune \/ PruneSessions

SpecPrune == PruneInit /\ [][PruneNext]_vars

\* The session files of a directory, and the paths of a set of files.
SessionsIn(dir) == {dir[i] : i \in {j \in 1..Len(dir) : dir[j].jsonl}}
PathsOf(fileSet) == {f.path : f \in fileSet}

\* The files prune_sessions found, those it deleted, those older than
\* max_age, and those neither older than max_age nor deleted.
FoundByPrune == SessionsIn(pruned[1].before)
DeletedByPrune ==
    {f \in FoundByPrune : f.path \notin PathsOf(SessionsIn(sessionsDir))}
OlderThanMaxAge ==
    IF pruneArgs[1].max_age = <<>>
    THEN {}
    ELSE {f \in FoundByPrune :
             f.modified <= clock
                 /\ clock - f.modified > pruneArgs[1].max_age[1]}

\* g is newer than f: modified later, or at the same time and listed later.
NewerThan(g, f) ==
    \/ g.modified > f.modified
    \/ g.modified = f.modified /\ g.path > f.path

\* f is among the n newest files prune_sessions found.
AmongNewest(f, n) ==
    Cardinality({g \in FoundByPrune : NewerThan(g, f)}) < n

\* C36: prune_sessions deletes every session file older than max_age and
\* then, if more than max_count are left, the oldest of these until exactly
\* max_count are left; it never deletes a file that is within max_age and
\* among the max_count newest, and preview_prune reports exactly the files
\* prune_sessions would delete.  The parts that say what is deleted are for
\* a directory whose files the file system lets be removed.
C36_PrunedByAgeThenCount ==
    pruned # <<>> =>
        LET kept == FoundByPrune \ DeletedByPrune
            young == FoundByPrune \ OlderThanMaxAge
            max_count == pruneArgs[1].max_count
        IN /\ (\A f \in FoundByPrune : f.removable) =>
                  /\ OlderThanMaxAge \subseteq DeletedByPrune
                  /\ IF max_count # <<>> /\ Cardinality(young) > max_count[1]
                     THEN Cardinality(kept) = max_count[1]
                     ELSE kept = young
                  /\ \A d \in DeletedByPrune, k \in kept : NewerThan(k, d)
                  /\ pruned[1].deleted = Cardinality(DeletedByPrune)
           /\ \A d \in DeletedByPrune :
                  \/ d \in OlderThanMaxAge
                  \/ max_count # <<>> /\ ~AmongNewest(d, max_count[1])
           /\ {f \in Range(sessionsDir) : ~f.jsonl}
                  = {f \in Range(pruned[1].before) : ~f.jsonl}
           /\ (previewed # <<>> /\ previewed[1].dir = pruned[1].before) =>
                  /\ (\A f \in FoundByPrune : f.removable) =>
                         {e[1] : e \in Range(previewed[1].to_delete)}
                             = PathsOf(DeletedByPrune)
                  /\ PathsOf(DeletedByPrune)
                         \subseteq {e[1] : e \in Range(previewed[1].to_delete)}
                  /\ \A i, j \in 1..Len(previewed[1].to_delete) :
                         i # j => previewed[1].to_delete[i]
                                      # previewed[1].to_delete[j]

\* Of three session files previewed and then pruned, one was deleted for its
\* age and one more for the count, and the newest is left.
C36_Witness ==
    /\ pruned # <<>>
    /\ previewed # <<>>
    /\ previewed[1].dir = pruned[1].before
    /\ pruneArgs[1] = [max_age |-> <<1>>, max_count |-> <<1>>]
    /\ Cardinality(FoundByPrune) = 3
    /\ \A f \in FoundByPrune : f.removable
    /\ Cardinality(OlderThanMaxAge) = 1
    /\ pruned[1].deleted = 2
    /\ Len(previewed[1].to_delete) = 2
    /\ Len(sessionsDir) = 1

\* A file older than max_age is still there after prune_sessions: the file
\* system did not let it be removed, which prune_sessions only logs.
C36_KeptWhereRemovalFails ==
    /\ pruned # <<>>
    /\ \E f \in OlderThanMaxAge : f \notin DeletedByPrune /\ ~f.removable

\* A file modified after the time of the call is not older than max_age,
\* and is deleted only for the count.
C36_FutureFileOnlyByCount ==
    pruned # <<>> =>
        \A f \in DeletedByPrune :
            f.modified > clock => pruneArgs[1].max_count # <<>>

=============================================================================
